---- MODULE Spec2Model ----
(***************************************************************************)
(* Model of agent-mail-cli's local session registry (cli.py) and of the    *)
(* commands that use it: register, session heartbeat, session status and   *)
(* session end.                                                            *)
(*                                                                         *)
(* Every CLI invocation is a short-lived process started by a long-lived   *)
(* host process (normally through an ephemeral shell).  Invocations of     *)
(* different hosts interleave; register is split at its blocking remote    *)
(* call (cli.py:776), every other command is one step.                     *)
(*                                                                         *)
(* Modelling decisions:                                                    *)
(*  - time is an integer count of seconds; every CLI step reads the wall   *)
(*    clock once, at a strictly later reading than the previous CLI step;  *)
(*  - process ids are never reused: the pid of an exited process is dead   *)
(*    for ever.  The CLI process of a step, and its parent when that is an *)
(*    ephemeral shell, exit when the step ends, so a stored pid of either  *)
(*    is from then on the pid of a dead process other than every later     *)
(*    process: all such pids are identified as GonePid;                    *)
(*  - the session directory is one HOME's directory; the host processes    *)
(*    that use it run under one user id or under two (procs maps every     *)
(*    live host process to its user id);                                   *)
(*  - db is the SQLite store behind database.py.  Its rows are written by  *)
(*    the remote server; the model keeps of every row the columns that     *)
(*    agent_dependencies and delete_agent read or write.  An agent's id is *)
(*    identified with the name it was registered under, every recipient    *)
(*    link names an existing message, and expires_ts is kept as its        *)
(*    position relative to datetime('now').  Each method of AgentMailDB is *)
(*    one step;                                                            *)
(*  - env is what the sources outside the program will answer when a      *)
(*    command asks them: the remote server behind the gateway and the      *)
(*    issue tracker executable.  It changes between commands only.         *)
(***************************************************************************)
EXTENDS Integers, FiniteSets, Sequences, Bags, TLC

VARIABLES now, files, procs, reg, last, db, env

vars == <<now, files, procs, reg, last, db, env>>

-----------------------------------------------------------------------------
(* Bounds *)

MaxTime == 5
MaxTtl == 2
MaxRows == 2

(* Program constants *)

InitPid == 1

\* The default limit of the reservation listings.
ListLimit == 100

\* The number of issues of a tracker listing that context keeps.
BeadsShown == 5

\* The request timeout, in seconds, when nothing configures one.
DefaultTimeout == 30

-----------------------------------------------------------------------------
(* Universe *)

Project == "p1"
Agents == {"a1"}

\* Long-lived host processes.  They run under the same user id or under
\* two different ones.
Hosts == {2, 3}
Uids == {"user", "other"}
MaxHost == CHOOSE p \in Hosts : \A q \in Hosts : q <= p

\* os.getpid() of the CLI process of the step being taken.
CliPid == MaxHost + 1
\* os.getppid() when the CLI was started through an ephemeral shell.
ShellPid == MaxHost + 2
\* The pid of a CLI process or ephemeral shell that has exited.
GonePid == MaxHost + 3

TtlValues == 1 .. MaxTtl

CorruptKinds ==
    {"not_json", "not_object", "no_expires", "expires_not_str",
     "expires_not_ts", "naive_ts"}

NoFile == [kind |-> "none"]

\* The record of a session file.  The field `by` is not in the file: it
\* remembers the claimant, the host process under which the last register
\* that wrote the record ran (a heartbeat keeps it).
SessionData(agent, started, expires, pid, by) ==
    [kind |-> "valid", agent |-> agent, project |-> Project,
     started_at |-> started, expires_at |-> expires, pid |-> pid, by |-> by]

-----------------------------------------------------------------------------
(* Session registry *)

\* A read that would report an expired record absent but leave its file.
ReadSessionKeepingExpired(f, t) ==
    IF f.kind = "valid"
    THEN IF f.expires_at < t THEN [out |-> "absent", file |-> f]
                             ELSE [out |-> "data", file |-> f]
    ELSE IF f.kind \in {"not_object", "expires_not_str", "naive_ts"}
         THEN [out |-> "raise", file |-> f]
         ELSE [out |-> "absent", file |-> f]

\* _read_session: the outcome and the file left behind, read at clock t.
\*   not_json        json.loads raises JSONDecodeError (caught)
\*   not_object      data.get raises AttributeError (not caught)
\*   no_expires      fromisoformat("") raises ValueError (caught)
\*   expires_not_str <value>.replace raises AttributeError (not caught)
\*   expires_not_ts  fromisoformat raises ValueError (caught)
\*   naive_ts        naive < aware raises TypeError (not caught)
ReadSession(f, t) ==
    CASE f.kind = "none"            -> [out |-> "absent", file |-> f]
      [] f.kind = "not_json"        -> [out |-> "absent", file |-> f]
      [] f.kind = "not_object"      -> [out |-> "raise",  file |-> f]
      [] f.kind = "no_expires"      -> [out |-> "absent", file |-> f]
      [] f.kind = "expires_not_str" -> [out |-> "raise",  file |-> f]
      [] f.kind = "expires_not_ts"  -> [out |-> "absent", file |-> f]
      [] f.kind = "naive_ts"        -> [out |-> "raise",  file |-> f]
      [] OTHER ->
            IF f.expires_at < t
            THEN [out |-> "absent", file |-> NoFile]
            ELSE [out |-> "data", file |-> f]

\* What a CLI started by host h can find when it looks for its ancestors:
\* its parent (the host itself, or an ephemeral shell of the host) and the
\* outcome of `ps -o ppid= -p <parent>`.
Lookups(h) ==
    {[kind |-> "ok", parent |-> ShellPid, ppid |-> h],
     [kind |-> "ok", parent |-> h, ppid |-> InitPid],
     [kind |-> "nonzero", parent |-> ShellPid, ppid |-> 0],
     [kind |-> "raise", parent |-> ShellPid, ppid |-> 0]}

\* _write_session, lines 123-134: the pid to store.
StablePid(me, lk) ==
    CASE lk.kind = "raise"   -> lk.parent
      [] lk.kind = "nonzero" -> me
      [] OTHER -> IF lk.ppid > InitPid THEN lk.ppid ELSE me

\* A write that would restart started_at every time.
WriteSessionRestarting(f, agent, ttl, t, pid, by) ==
    LET r == ReadSession(f, t) IN
    IF r.out = "raise"
    THEN [out |-> "raise", file |-> f]
    ELSE [out |-> "ok", file |-> SessionData(agent, t, t + ttl, pid, by)]

\* A write that would add ttl to the stored expires_at instead of restarting
\* the lifetime from the clock.
WriteSessionExtending(f, agent, ttl, t, pid, by) ==
    LET r == ReadSession(f, t) IN
    IF r.out = "raise"
    THEN [out |-> "raise", file |-> f]
    ELSE [out |-> "ok",
          file |-> SessionData(agent,
                               IF r.out = "data" THEN r.file.started_at ELSE t,
                               IF r.out = "data" THEN r.file.expires_at + ttl ELSE t + ttl,
                               pid, by)]

\* _write_session: the outcome and the file left behind.
WriteSession(f, agent, ttl, t, pid, by) ==
    LET r == ReadSession(f, t) IN
    IF r.out = "raise"
    THEN [out |-> "raise", file |-> f]
    ELSE [out |-> "ok",
          file |-> SessionData(agent,
                               IF r.out = "data" THEN r.file.started_at ELSE t,
                               t + ttl, pid, by)]

\* A clear that would report a removal whether or not a file was there.
ClearSessionAlwaysTrue(f) == [out |-> TRUE, file |-> NoFile]

\* _clear_session
ClearSession(f) ==
    IF f.kind # "none" THEN [out |-> TRUE, file |-> NoFile]
                       ELSE [out |-> FALSE, file |-> f]

\* os.kill(pid, 0) by a process of user uid.
Probe(uid, pid) ==
    IF pid \notin DOMAIN procs THEN "ESRCH"
    ELSE IF procs[pid] # uid THEN "EPERM"
    ELSE "ok"

\* _check_session_conflict, called by the CLI process me of user uid.
CheckSessionConflict(f, me, uid, t) ==
    LET r == ReadSession(f, t) IN
    IF r.out = "raise" THEN [out |-> "raise", file |-> f]
    ELSE IF r.out = "absent" THEN [out |-> "absent", file |-> r.file]
    ELSE IF f.pid = me THEN [out |-> "absent", file |-> f]
    ELSE IF f.pid # 0 /\ Probe(uid, f.pid) # "ok"
         THEN [out |-> "absent", file |-> ClearSession(f).file]
    ELSE [out |-> "conflict", file |-> f]

\* A report that would give the expiry time instead of the time remaining.
FormatSessionExpiryAbsolute(f, t) == <<f.expires_at, "s">>

\* _format_session_expiry
FormatSessionExpiry(f, t) ==
    LET seconds == f.expires_at - t IN
    IF seconds < 60 THEN <<seconds, "s">>
    ELSE IF seconds < 3600 THEN <<seconds \div 60, "m">>
    ELSE <<seconds \div 3600, "h">>

-----------------------------------------------------------------------------
(* Processes and observations *)

\* The file once the CLI process that wrote it, and its ephemeral shell,
\* have exited.
AfterExit(f) ==
    IF f.kind = "valid" /\ f.pid \in {CliPid, ShellPid}
    THEN [f EXCEPT !.pid = GonePid]
    ELSE f

\* What a step at clock t finds in place of the file.
Seen(f, t) ==
    IF f.kind = "valid"
    THEN IF f.expires_at < t THEN "expired" ELSE "live"
    ELSE f.kind

\* The observable outcome of the last step: the command, the host that ran
\* it, the agent and the force flag it was given, its exit status and result,
\* what it found in place of the session file, what it printed or returned,
\* and whether it called register_agent.
Obs(op, h, a, force, exit, out, seen, ret, called) ==
    [op |-> op, host |-> h, agent |-> a, force |-> force, exit |-> exit,
     out |-> out, seen |-> seen, ret |-> ret, called |-> called]

EnvObs == Obs("env", 0, "", FALSE, 0, "", "none", NoFile, FALSE)

\* The answers of the remote server and of the issue tracker, where no
\* command of the specification asks for them.
NoEnv == [kind |-> "none"]

\* The record a write returns, with the ttl it was given and the expires_at
\* it replaced (0 when it created the record).
Written(ttl, w, r) ==
    [ttl |-> ttl, data |-> w.file,
     prev_expires |-> IF r.out = "data" THEN r.file.expires_at ELSE 0]

Idle == [stage |-> "idle"]
InFlight(a, force) == [stage |-> "checked", agent |-> a, force |-> force]

-----------------------------------------------------------------------------
(* Store (database.py) *)

AgentNames == {"A", "B", "C"}
ProjectKeys == {Project, "p0"}
NoId == ""

\* expires_ts of a reservation: NULL, later than datetime('now'), or not.
ExpiryValues == {"null", "future", "past"}

RecipientRows == [agent : AgentNames, read : BOOLEAN]
ReservationRows == [agent : AgentNames, released : BOOLEAN, expires : ExpiryValues]
LinkRows == {l \in AgentNames \X AgentNames : l[1] # l[2]}

\* The tables: agents is the set of agent rows, messages the bag of sender
\* ids of the message rows, recipients and reservations bags of rows, links
\* the set of <<a_agent_id, b_agent_id>> rows.
InitialStore(registered) ==
    [agents |-> registered, messages |-> EmptyBag, recipients |-> EmptyBag,
     reservations |-> EmptyBag, links |-> {}]

RECURSIVE SumOver(_, _)
SumOver(B, S) ==
    IF S = {} THEN 0
    ELSE LET x == CHOOSE y \in S : TRUE IN B[x] + SumOver(B, S \ {x})

\* SELECT COUNT(*) FROM <table> WHERE <Cond>
CountWhere(B, Cond(_)) == SumOver(B, {x \in DOMAIN B : Cond(x)})

\* DELETE FROM <table> WHERE <Cond>
DeleteWhere(B, Cond(_)) == [x \in {y \in DOMAIN B : ~Cond(y)} |-> B[x]]

\* UPDATE <table> SET <Set> (rows outside the WHERE are mapped to themselves)
UpdateRows(B, Set(_)) ==
    [y \in {Set(x) : x \in DOMAIN B} |-> SumOver(B, {x \in DOMAIN B : Set(x) = y})]

\* _get_project_id: 0 stands for no row
GetProjectId(key) == IF key = Project THEN 1 ELSE 0

\* A lookup that would resolve a name whose row is gone.
GetAgentIdUnchecked(d, name) == name

\* _get_agent_id
GetAgentId(d, name) == IF name \in d.agents THEN name ELSE NoId

\* A count that would take every unreleased reservation for active.
IsActiveIgnoringExpiry(r) == ~r.released

\* The WHERE clause of the active-reservation count.
IsActive(r) == ~r.released /\ (r.expires = "null" \/ r.expires = "future")

\* A verdict that would look at the unread messages only.
CanDeleteUnreadOnly(unread_messages, active_reservations) == unread_messages = 0

\* agent_dependencies, line 276
CanDelete(unread_messages, active_reservations) ==
    unread_messages = 0 /\ active_reservations = 0

\* agent_dependencies
AgentDependencies(d, key, name) ==
    LET agent_id == GetAgentId(d, name)
        unread_messages ==
            CountWhere(d.recipients, LAMBDA mr : mr.agent = agent_id /\ ~mr.read)
        active_reservations ==
            CountWhere(d.reservations, LAMBDA r : r.agent = agent_id /\ IsActive(r))
        sent_messages == CountWhere(d.messages, LAMBDA sender : sender = agent_id)
    IN
    IF GetProjectId(key) = 0 THEN [out |-> "not_found", missing |-> "project"]
    ELSE IF agent_id = NoId THEN [out |-> "not_found", missing |-> "agent"]
    ELSE [out |-> "ok",
          agent_id |-> agent_id,
          unread_messages |-> unread_messages,
          active_reservations |-> active_reservations,
          sent_messages |-> sent_messages,
          can_delete |-> CanDelete(unread_messages, active_reservations)]

\* A release step that would rewrite every reservation of the agent.
ReleasedOrNot(agent_id, r) == r.agent = agent_id

\* delete_agent: the WHERE clauses of the cascade.
Unreleased(agent_id, r) == r.agent = agent_id /\ ~r.released
Linked(agent_id, l) == l[1] = agent_id \/ l[2] = agent_id

\* A cascade that would remove the contact links of one side only.
CascadeOneSidedLinks(d, agent_id) ==
    [d EXCEPT
       !.reservations =
           UpdateRows(@, LAMBDA r : IF Unreleased(agent_id, r)
                                    THEN [r EXCEPT !.released = TRUE]
                                    ELSE r),
       !.recipients = DeleteWhere(@, LAMBDA mr : mr.agent = agent_id),
       !.links = {l \in @ : l[1] # agent_id},
       !.agents = @ \ {agent_id}]

\* A cascade that would also delete the messages the agent sent.
CascadeWithMessages(d, agent_id) ==
    [d EXCEPT
       !.reservations =
           UpdateRows(@, LAMBDA r : IF Unreleased(agent_id, r)
                                    THEN [r EXCEPT !.released = TRUE]
                                    ELSE r),
       !.recipients = DeleteWhere(@, LAMBDA mr : mr.agent = agent_id),
       !.links = {l \in @ : ~Linked(agent_id, l)},
       !.messages = DeleteWhere(@, LAMBDA sender : sender = agent_id),
       !.agents = @ \ {agent_id}]

\* delete_agent, lines 300-331: the store the transaction leaves.
Cascade(d, agent_id) ==
    [d EXCEPT
       !.reservations =
           UpdateRows(@, LAMBDA r : IF Unreleased(agent_id, r)
                                    THEN [r EXCEPT !.released = TRUE]
                                    ELSE r),
       !.recipients = DeleteWhere(@, LAMBDA mr : mr.agent = agent_id),
       !.links = {l \in @ : ~Linked(agent_id, l)},
       !.agents = @ \ {agent_id}]

\* delete_agent: the outcome, what is returned or raised, and the store left.
DeleteAgent(d, key, name, force) ==
    LET deps == AgentDependencies(d, key, name)
        agent_id == deps.agent_id
    IN
    IF deps.out # "ok" THEN [out |-> "not_found", ret |-> deps, db |-> d]
    ELSE IF ~deps.can_delete /\ ~force
    THEN [out |-> "conflict",
          ret |-> [unread_messages |-> deps.unread_messages,
                   active_reservations |-> deps.active_reservations],
          db |-> d]
    ELSE [out |-> "ok",
          ret |-> [deleted |-> TRUE,
                   agent_name |-> name,
                   released_reservations |->
                       CountWhere(d.reservations, LAMBDA r : Unreleased(agent_id, r)),
                   removed_recipient_entries |->
                       CountWhere(d.recipients, LAMBDA mr : mr.agent = agent_id),
                   removed_links |-> Cardinality({l \in d.links : Linked(agent_id, l)}),
                   orphaned_sent_messages |-> deps.sent_messages],
          db |-> Cascade(d, agent_id)]

-----------------------------------------------------------------------------
(* State machine *)

Init ==
    /\ now = 0
    /\ files = [a \in Agents |-> NoFile]
    /\ procs \in {[h \in Hosts |-> IF h = MaxHost THEN u ELSE "user"] : u \in Uids}
    /\ reg = [h \in Hosts |-> Idle]
    /\ last = EnvObs
    /\ env = NoEnv
    /\ db = InitialStore(AgentNames)

\* session heartbeat
Heartbeat(h, a, ttl, lk) ==
    LET t == now + 1
        r == ReadSession(files[a], t)
        w == WriteSession(r.file, a, ttl, t, StablePid(CliPid, lk),
                          IF r.out = "data" THEN r.file.by ELSE h)
    IN
    /\ h \in DOMAIN procs
    /\ t <= MaxTime
    /\ now' = t
    /\ UNCHANGED <<procs, reg, db, env>>
    /\ IF r.out = "raise"
       THEN /\ last' = Obs("heartbeat", h, a, FALSE, 1, "error", Seen(files[a], t), NoFile, FALSE)
            /\ UNCHANGED files
       ELSE IF r.out = "absent"
       THEN /\ files' = [files EXCEPT ![a] = r.file]
            /\ last' = Obs("heartbeat", h, a, FALSE, 1, "no_session", Seen(files[a], t), NoFile, FALSE)
       ELSE /\ files' = [files EXCEPT ![a] = AfterExit(w.file)]
            /\ last' = Obs("heartbeat", h, a, FALSE, 0, "ok", Seen(files[a], t),
                           Written(ttl, w, r), FALSE)

\* session status <agent>
Status(h, a) ==
    LET t == now + 1
        r == ReadSession(files[a], t)
    IN
    /\ h \in DOMAIN procs
    /\ t <= MaxTime
    /\ now' = t
    /\ UNCHANGED <<procs, reg, db, env>>
    /\ files' = [files EXCEPT ![a] = r.file]
    /\ last' = IF r.out = "raise"
               THEN Obs("status", h, a, FALSE, 1, "error", Seen(files[a], t), NoFile, FALSE)
               ELSE IF r.out = "absent"
               THEN Obs("status", h, a, FALSE, 0, "inactive", Seen(files[a], t), NoFile, FALSE)
               ELSE Obs("status", h, a, FALSE, 0, "active", Seen(files[a], t), r.file, FALSE)

\* session end
SessionEnd(h, a) ==
    LET t == now + 1
        c == ClearSession(files[a])
    IN
    /\ h \in DOMAIN procs
    /\ t <= MaxTime
    /\ now' = t
    /\ UNCHANGED <<procs, reg, db, env>>
    /\ files' = [files EXCEPT ![a] = c.file]
    /\ last' = Obs("end", h, a, FALSE, 0,
                   IF c.out THEN "cleared" ELSE "not_cleared",
                   Seen(files[a], t), NoFile, FALSE)

\* register --name a, lines 732-774: ensure_project, then the conflict check.
RegisterCheck(h, a, force, projectOk) ==
    LET t == now + 1
        c == CheckSessionConflict(files[a], CliPid, procs[h], t)
    IN
    /\ h \in DOMAIN procs
    /\ reg[h] = Idle
    /\ t <= MaxTime
    /\ now' = t
    /\ UNCHANGED <<procs, db, env>>
    /\ IF ~projectOk
       THEN /\ last' = Obs("register", h, a, force, 1, "remote_error", Seen(files[a], t), NoFile, FALSE)
            /\ UNCHANGED <<files, reg>>
       ELSE IF force
       THEN /\ reg' = [reg EXCEPT ![h] = InFlight(a, force)]
            /\ last' = Obs("register_check", h, a, force, 0, "unchecked", Seen(files[a], t), NoFile, FALSE)
            /\ UNCHANGED files
       ELSE /\ files' = [files EXCEPT ![a] = c.file]
            /\ IF c.out = "raise"
               THEN /\ last' = Obs("register", h, a, force, 1, "error", Seen(files[a], t), NoFile, FALSE)
                    /\ UNCHANGED reg
               ELSE IF c.out = "conflict"
               THEN /\ last' = Obs("register", h, a, force, 1, "conflict", Seen(files[a], t),
                                   [conflict_pid |-> files[a].pid,
                                    expires_in |-> FormatSessionExpiry(files[a], t)],
                                   FALSE)
                    /\ UNCHANGED reg
               ELSE /\ reg' = [reg EXCEPT ![h] = InFlight(a, force)]
                    /\ last' = Obs("register_check", h, a, force, 0, "free", Seen(files[a], t), NoFile, FALSE)

\* register, lines 776-805: register_agent returns, then the session write.
\* The ttl option is read here for the first time, so it is drawn here.
RegisterFinish(h, ttl, remoteOk, lk) ==
    LET t == now + 1
        a == reg[h].agent
        force == reg[h].force
        w == WriteSession(files[a], a, ttl, t, StablePid(CliPid, lk), h)
    IN
    /\ reg[h].stage = "checked"
    /\ lk.ppid = h => h \in DOMAIN procs
    /\ t <= MaxTime
    /\ now' = t
    /\ reg' = [reg EXCEPT ![h] = Idle]
    /\ UNCHANGED <<procs, db, env>>
    /\ IF ~remoteOk
       THEN /\ last' = Obs("register", h, a, force, 1, "remote_error", Seen(files[a], t), NoFile, TRUE)
            /\ UNCHANGED files
       ELSE IF w.out = "raise"
       THEN /\ last' = Obs("register", h, a, force, 1, "error", Seen(files[a], t), NoFile, TRUE)
            /\ UNCHANGED files
       ELSE /\ files' = [files EXCEPT ![a] = AfterExit(w.file)]
            /\ last' = Obs("register", h, a, force, 0, "ok", Seen(files[a], t),
                           Written(ttl, w, ReadSession(files[a], t)), TRUE)

\* A crash that would leave a truncated session file behind.
RegisterCrashTornWrite(h) ==
    /\ reg[h].stage = "checked"
    /\ reg' = [reg EXCEPT ![h] = Idle]
    /\ files' = [files EXCEPT ![reg[h].agent] = [kind |-> "not_json"]]
    /\ last' = EnvObs
    /\ UNCHANGED <<now, procs, db, env>>

\* The CLI process of a register is killed while it waits for the remote store.
RegisterCrash(h) ==
    /\ reg[h].stage = "checked"
    /\ reg' = [reg EXCEPT ![h] = Idle]
    /\ last' = EnvObs
    /\ UNCHANGED <<now, files, procs, db, env>>

\* A host process exits.
ProcExit(p) ==
    /\ p \in DOMAIN procs
    /\ procs' = [q \in DOMAIN procs \ {p} |-> procs[q]]
    /\ last' = EnvObs
    /\ UNCHANGED <<now, files, reg, db, env>>

\* The content of a session file is damaged (torn write, disk fault, edit).
CorruptFile(a, kind) ==
    /\ files[a] # [kind |-> kind]
    /\ files' = [files EXCEPT ![a] = [kind |-> kind]]
    /\ last' = EnvObs
    /\ UNCHANGED <<now, procs, reg, db, env>>

\* Time passes.
Tick ==
    /\ now < MaxTime
    /\ now' = now + 1
    /\ last' = EnvObs
    /\ UNCHANGED <<files, procs, reg, db, env>>

Next ==
    \/ \E h \in Hosts, a \in Agents, ttl \in TtlValues :
          \E lk \in Lookups(h) : Heartbeat(h, a, ttl, lk)
    \/ \E h \in Hosts, a \in Agents : Status(h, a)
    \/ \E h \in Hosts, a \in Agents : SessionEnd(h, a)
    \/ \E h \in Hosts, a \in Agents, force \in BOOLEAN, projectOk \in BOOLEAN :
          RegisterCheck(h, a, force, projectOk)
    \/ \E h \in Hosts, ttl \in TtlValues, remoteOk \in BOOLEAN :
          \E lk \in Lookups(h) : RegisterFinish(h, ttl, remoteOk, lk)
    \/ \E h \in Hosts : RegisterCrash(h)
    \/ \E p \in Hosts : ProcExit(p)
    \/ \E a \in Agents, kind \in CorruptKinds : CorruptFile(a, kind)
    \/ Tick

Spec == Init /\ [][Next]_vars

\* The interleavings of register invocations made without force, with time
\* passing and hosts exiting.
NextRegister ==
    \/ \E h \in Hosts, a \in Agents, projectOk \in BOOLEAN :
            RegisterCheck(h, a, FALSE, projectOk)
    \/ \E h \in Hosts, ttl \in TtlValues, remoteOk \in BOOLEAN :
            \E lk \in Lookups(h) : RegisterFinish(h, ttl, remoteOk, lk)
    \/ \E p \in Hosts : ProcExit(p)
    \/ Tick

SpecRegister == Init /\ [][NextRegister]_vars

-----------------------------------------------------------------------------
(* Store steps *)

\* The observable outcome of a store method called for project key and
\* agent name: its result, and what it returned or raised.
StoreObs(op, key, name, force, r) ==
    [project |-> key]
        @@ Obs(op, 0, name, force, IF r.out = "ok" THEN 0 ELSE 1, r.out, "none", r.ret, FALSE)

\* The rows the remote server has added and that are still counted.
StoreSize(d) ==
    BagCardinality(d.messages) + BagCardinality(d.reservations) + Cardinality(d.links)

\* The server stores a message of sender for one recipient.
SendMessage(sender, to) ==
    /\ StoreSize(db) < MaxRows
    /\ sender \in db.agents /\ to \in db.agents
    /\ db' = [db EXCEPT !.messages = @ (+) SetToBag({sender}),
                        !.recipients = @ (+) SetToBag({[agent |-> to, read |-> FALSE]})]
    /\ last' = EnvObs
    /\ UNCHANGED <<now, files, procs, reg, env>>

\* The server marks a message read for its recipient.
MarkRead(mr) ==
    /\ BagIn(mr, db.recipients) /\ ~mr.read
    /\ db' = [db EXCEPT !.recipients =
                  (@ (-) SetToBag({mr})) (+) SetToBag({[mr EXCEPT !.read = TRUE]})]
    /\ last' = EnvObs
    /\ UNCHANGED <<now, files, procs, reg, env>>

\* The server grants a reservation, with or without an expiry.
Reserve(agent, expires) ==
    /\ StoreSize(db) < MaxRows
    /\ agent \in db.agents /\ expires # "past"
    /\ db' = [db EXCEPT !.reservations =
                  @ (+) SetToBag({[agent |-> agent, released |-> FALSE, expires |-> expires]})]
    /\ last' = EnvObs
    /\ UNCHANGED <<now, files, procs, reg, env>>

\* The clock passes the expires_ts of a reservation.
Expire(r) ==
    /\ BagIn(r, db.reservations) /\ r.expires = "future"
    /\ db' = [db EXCEPT !.reservations =
                  (@ (-) SetToBag({r})) (+) SetToBag({[r EXCEPT !.expires = "past"]})]
    /\ last' = EnvObs
    /\ UNCHANGED <<now, files, procs, reg, env>>

\* The server releases a reservation.
Release(r) ==
    /\ BagIn(r, db.reservations) /\ ~r.released
    /\ db' = [db EXCEPT !.reservations =
                  (@ (-) SetToBag({r})) (+) SetToBag({[r EXCEPT !.released = TRUE]})]
    /\ last' = EnvObs
    /\ UNCHANGED <<now, files, procs, reg, env>>

\* The server links two agents as contacts.
AddLink(l) ==
    /\ StoreSize(db) < MaxRows
    /\ l \notin db.links /\ l[1] \in db.agents /\ l[2] \in db.agents
    /\ db' = [db EXCEPT !.links = @ \cup {l}]
    /\ last' = EnvObs
    /\ UNCHANGED <<now, files, procs, reg, env>>

\* AgentMailDB.agent_dependencies(key, name)
Dependencies(key, name) ==
    LET deps == AgentDependencies(db, key, name) IN
    /\ last' = StoreObs("dependencies", key, name, FALSE, [out |-> deps.out, ret |-> deps])
    /\ UNCHANGED <<now, files, procs, reg, db, env>>

\* AgentMailDB.delete_agent(key, name, force)
Delete(key, name, force) ==
    LET r == DeleteAgent(db, key, name, force) IN
    /\ db' = r.db
    /\ last' = StoreObs("delete_agent", key, name, force, r)
    /\ UNCHANGED <<now, files, procs, reg, env>>

NextStore ==
    \/ \E sender \in AgentNames, to \in AgentNames : SendMessage(sender, to)
    \/ \E mr \in RecipientRows : MarkRead(mr)
    \/ \E agent \in AgentNames, expires \in ExpiryValues : Reserve(agent, expires)
    \/ \E r \in ReservationRows : Expire(r)
    \/ \E r \in ReservationRows : Release(r)
    \/ \E l \in LinkRows : AddLink(l)
    \/ \E key \in ProjectKeys, name \in AgentNames : Dependencies(key, name)
    \/ \E key \in ProjectKeys, name \in AgentNames, force \in BOOLEAN :
            Delete(key, name, force)

\* Two of the names are registered; the third never was.
InitStore ==
    /\ now = 0
    /\ files = [a \in Agents |-> NoFile]
    /\ procs = [h \in Hosts |-> "user"]
    /\ reg = [h \in Hosts |-> Idle]
    /\ last = EnvObs
    /\ env = NoEnv
    /\ db = InitialStore({"A", "B"})

SpecStore == InitStore /\ [][NextStore]_vars

-----------------------------------------------------------------------------
(* Reservation listings (database.py) *)

\* The rows of B that satisfy the WHERE clause and whose agent_id joins an
\* agent row.  The stores of the model hold fewer rows than ListLimit, so
\* that LIMIT cuts nothing and ORDER BY decides no membership.
SelectJoined(d, Keep(_)) ==
    [r \in {x \in DOMAIN d.reservations : Keep(x) /\ x.agent \in d.agents}
        |-> d.reservations[r]]

\* file_reservations_active
FileReservationsActive(d, key, limit) ==
    IF GetProjectId(key) = 0 THEN EmptyBag
    ELSE SelectJoined(d, LAMBDA r : ~r.released)

\* file_reservations_list
FileReservationsList(d, key, active_only, limit) ==
    IF GetProjectId(key) = 0 THEN EmptyBag
    ELSE SelectJoined(d, LAMBDA r : active_only => ~r.released)

ListObs(op, key, active_only, rows) ==
    [project |-> key, active_only |-> active_only]
        @@ Obs(op, 0, "", FALSE, 0, "ok", "none", rows, FALSE)

\* AgentMailDB.file_reservations_active(key)
ListActive(key) ==
    /\ BagCardinality(db.reservations) < ListLimit
    /\ last' = ListObs("file_reservations_active", key, TRUE,
                       FileReservationsActive(db, key, ListLimit))
    /\ UNCHANGED <<now, files, procs, reg, db, env>>

\* AgentMailDB.file_reservations_list(key, active_only)
ListReservations(key, active_only) ==
    /\ BagCardinality(db.reservations) < ListLimit
    /\ last' = ListObs("file_reservations_list", key, active_only,
                       FileReservationsList(db, key, active_only, ListLimit))
    /\ UNCHANGED <<now, files, procs, reg, db, env>>

NextList ==
    \/ \E agent \in AgentNames, expires \in ExpiryValues : Reserve(agent, expires)
    \/ \E r \in ReservationRows : Expire(r)
    \/ \E r \in ReservationRows : Release(r)
    \/ \E name \in AgentNames, force \in BOOLEAN : Delete(Project, name, force)
    \/ \E key \in ProjectKeys : ListActive(key)
    \/ \E key \in ProjectKeys, active_only \in BOOLEAN : ListReservations(key, active_only)

SpecList == InitStore /\ [][NextList]_vars

-----------------------------------------------------------------------------
(* The delete command (cli.py) *)

\* The calls the command makes on its client; the client hands them to the
\* store.
ClientAgentDependencies(d, key, name) == AgentDependencies(d, key, name)
ClientDeleteAgent(d, key, name, force) == DeleteAgent(d, key, name, force)

\* The batches of the command line: one name, or three distinct names.
Batches ==
    {<<a>> : a \in AgentNames}
        \cup {b \in AgentNames \X AgentNames \X AgentNames :
                  b[1] # b[2] /\ b[1] # b[3] /\ b[2] # b[3]}

NoRun == [db |-> InitialStore({}), results |-> <<>>, errors |-> <<>>, calls |-> <<>>]

\* A loop body that would delete whether or not --dry-run was given.
DeleteOneIgnoringDryRun(d, key, agent, force, dry_run) ==
    ClientDeleteAgent(d, key, agent, force)

\* delete, lines 1063-1079: the call made for one agent of the batch.
DeleteOne(d, key, agent, force, dry_run) ==
    LET deps == ClientAgentDependencies(d, key, agent) IN
    IF dry_run
    THEN [out |-> deps.out, ret |-> deps, db |-> d]
    ELSE ClientDeleteAgent(d, key, agent, force)

\* delete: the loop over the agents, from the store d, with what it has
\* collected so far in acc.
RECURSIVE DeleteLoop(_, _, _, _, _)
DeleteLoop(acc, key, agents, force, dry_run) ==
    IF agents = <<>> THEN acc
    ELSE
        LET agent == Head(agents)
            r == DeleteOne(acc.db, key, agent, force, dry_run)
            call == [tool |-> IF dry_run THEN "agent_dependencies" ELSE "delete_agent",
                     agent |-> agent, force |-> force /\ ~dry_run]
        IN  DeleteLoop(
                [db |-> r.db,
                 results |-> IF r.out = "ok"
                             THEN Append(acc.results, [agent |-> agent, ret |-> r.ret])
                             ELSE acc.results,
                 errors |-> IF r.out = "ok"
                            THEN acc.errors
                            ELSE Append(acc.errors, [agent |-> agent, error |-> r.out]),
                 calls |-> Append(acc.calls, call)],
                key, Tail(agents), force, dry_run)

\* delete, lines 1099-1105: the exit status after the loop.
DeleteExit(errors, as_json) == IF as_json /\ errors # <<>> THEN 1 ELSE 0

\* delete: one run of the command from the store d.
DeleteCommand(d, key, agents, force, dry_run, as_json) ==
    LET run == DeleteLoop([NoRun EXCEPT !.db = d], key, agents, force, dry_run)
    IN  run @@ [exit |-> DeleteExit(run.errors, as_json)]

DeleteObs(key, agents, force, dry_run, as_json, run) ==
    [op |-> "delete", project |-> key, agents |-> agents, force |-> force,
     dry_run |-> dry_run, as_json |-> as_json,
     exit |-> run.exit, results |-> run.results, errors |-> run.errors,
     calls |-> run.calls]

\* agent-mail delete [--force] [--dry-run] [--json] AGENTS...
DeleteCmd(key, agents, force, dry_run, as_json) ==
    LET run == DeleteCommand(db, key, agents, force, dry_run, as_json) IN
    /\ db' = run.db
    /\ last' = DeleteObs(key, agents, force, dry_run, as_json, run)
    /\ UNCHANGED <<now, files, procs, reg, env>>

NextBatch ==
    \/ \E sender \in AgentNames, to \in AgentNames : SendMessage(sender, to)
    \/ \E agents \in Batches, force \in BOOLEAN, dry_run \in BOOLEAN, as_json \in BOOLEAN :
            DeleteCmd(Project, agents, force, dry_run, as_json)

\* All three names are registered.
InitBatch ==
    /\ now = 0
    /\ files = [a \in Agents |-> NoFile]
    /\ procs = [h \in Hosts |-> "user"]
    /\ reg = [h \in Hosts |-> Idle]
    /\ last = EnvObs
    /\ env = NoEnv
    /\ db = InitialStore(AgentNames)

SpecBatch == InitBatch /\ [][NextBatch]_vars

-----------------------------------------------------------------------------
(* Session files of several agents and projects (cli.py) *)

SessionAgents == {"a1", "a2"}

\* _project_hash: the directory name of a project.  Distinct project keys of
\* the model have distinct digests.
ProjectHash(project_key) == <<"sha256", project_key>>

\* _session_file: directory of the project, file of the agent.
SessionFile(project_key, agent_name) == <<ProjectHash(project_key), agent_name>>

SessionFiles == {SessionFile(p, a) : p \in ProjectKeys, a \in SessionAgents}

\* session end AGENT --project KEY
SessionEndIn(h, project_key, agent) ==
    LET t == now + 1
        path == SessionFile(project_key, agent)
        c == ClearSession(files[path])
    IN
    /\ h \in DOMAIN procs
    /\ t <= MaxTime
    /\ now' = t
    /\ UNCHANGED <<procs, reg, db, env>>
    /\ files' = [files EXCEPT ![path] = c.file]
    /\ last' = [project |-> project_key]
                   @@ Obs("end", h, agent, FALSE, 0,
                          IF c.out THEN "cleared" ELSE "not_cleared",
                          Seen(files[path], t), NoFile, FALSE)

\* session heartbeat AGENT --project KEY, by a host whose lookup succeeds.
HeartbeatIn(h, project_key, agent, ttl) ==
    LET t == now + 1
        path == SessionFile(project_key, agent)
        r == ReadSession(files[path], t)
        w == WriteSession(r.file, agent, ttl, t, h,
                          IF r.out = "data" THEN r.file.by ELSE h)
    IN
    /\ h \in DOMAIN procs
    /\ t <= MaxTime
    /\ now' = t
    /\ UNCHANGED <<procs, reg, db, env>>
    /\ files' = [files EXCEPT ![path] = IF r.out = "data" THEN w.file ELSE r.file]
    /\ last' = [project |-> project_key]
                   @@ Obs("heartbeat", h, agent, FALSE,
                          IF r.out = "data" THEN 0 ELSE 1,
                          IF r.out = "data" THEN "ok"
                          ELSE IF r.out = "absent" THEN "no_session" ELSE "error",
                          Seen(files[path], t), NoFile, FALSE)

NextClear ==
    \/ \E h \in Hosts, p \in ProjectKeys, a \in SessionAgents : SessionEndIn(h, p, a)
    \/ \E h \in Hosts, p \in ProjectKeys, a \in SessionAgents :
            HeartbeatIn(h, p, a, MaxTtl)

\* Sessions written by earlier registers of host 2: every session file is
\* absent or holds a record that expires at MaxTtl.
InitClear ==
    /\ now = 0
    /\ files \in {[path \in SessionFiles |->
                       IF path \in written
                       THEN SessionData(path[2], 0, MaxTtl, 2, 2)
                       ELSE NoFile] : written \in SUBSET SessionFiles}
    /\ procs = [h \in Hosts |-> "user"]
    /\ reg = [h \in Hosts |-> Idle]
    /\ last = EnvObs
    /\ env = NoEnv
    /\ db = InitialStore(AgentNames)

SpecClear == InitClear /\ [][NextClear]_vars

-----------------------------------------------------------------------------
(* Soft-deleted agents and purge *)

\* A store that also keeps, next to the rows of InitialStore, the agents
\* that were soft-deleted (renamed to Deleted-<n>, blocked) and, for every
\* message, its author and its recipient.
PurgeStore(registered) ==
    InitialStore(registered) @@ [deleted |-> {}, mail |-> EmptyBag]

MailRows == [sender : AgentNames, to : AgentNames]

\* The messages purge removes: authored by a soft-deleted agent, with no
\* recipient that is still a live agent.
Orphaned(d, m) == m.sender \in d.deleted /\ m.to \notin d.agents

\* purge(project, dryRun)
PurgeDeletedAgents(d, key, dry_run) ==
    LET orphans == [m \in {x \in DOMAIN d.mail : Orphaned(d, x)} |-> d.mail[m]]
        ret == [dry_run |-> dry_run,
                purged_agents |-> Cardinality(d.deleted),
                purged_messages |-> BagCardinality(orphans),
                agents |-> d.deleted]
    IN  IF GetProjectId(key) = 0
        THEN [out |-> "not_found", ret |-> ret, db |-> d]
        ELSE IF dry_run
        THEN [out |-> "ok", ret |-> ret, db |-> d]
        ELSE [out |-> "ok", ret |-> ret,
              db |-> [d EXCEPT
                        !.deleted = {},
                        !.mail = @ (-) orphans,
                        !.messages =
                            @ (-) [a \in {m.sender : m \in DOMAIN orphans} |->
                                     BagCardinality(
                                        [m \in {x \in DOMAIN orphans : x.sender = a}
                                            |-> orphans[m]])]]]

\* The server stores a message of sender for one recipient.
Deliver(sender, to) ==
    /\ StoreSize(db) < MaxRows
    /\ sender \in db.agents /\ to \in db.agents
    /\ db' = [db EXCEPT !.messages = @ (+) SetToBag({sender}),
                        !.recipients = @ (+) SetToBag({[agent |-> to, read |-> FALSE]}),
                        !.mail = @ (+) SetToBag({[sender |-> sender, to |-> to]})]
    /\ last' = EnvObs
    /\ UNCHANGED <<now, files, procs, reg, env>>

\* softDelete(project, agent, force = true): the cascade, with the row kept
\* under a Deleted-<n> name.
SoftDelete(a) ==
    /\ a \in db.agents
    /\ db' = [Cascade(db, a) EXCEPT !.deleted = @ \cup {a}]
    /\ last' = EnvObs
    /\ UNCHANGED <<now, files, procs, reg, env>>

\* agent-mail purge [--dry-run]
PurgeCmd(key, dry_run) ==
    LET r == PurgeDeletedAgents(db, key, dry_run) IN
    /\ db' = r.db
    /\ last' = [op |-> "purge", project |-> key, dry_run |-> dry_run,
                exit |-> IF r.out = "ok" THEN 0 ELSE 1, out |-> r.out, ret |-> r.ret]
    /\ UNCHANGED <<now, files, procs, reg, env>>

NextDryRun ==
    \/ \E sender \in AgentNames, to \in AgentNames : Deliver(sender, to)
    \/ \E a \in AgentNames : SoftDelete(a)
    \/ \E agents \in Batches, force \in BOOLEAN, dry_run \in BOOLEAN :
            DeleteCmd(Project, agents, force, dry_run, TRUE)
    \/ \E dry_run \in BOOLEAN : PurgeCmd(Project, dry_run)

\* Two of the names are registered; the third never was.
InitDryRun ==
    /\ now = 0
    /\ files = [a \in Agents |-> NoFile]
    /\ procs = [h \in Hosts |-> "user"]
    /\ reg = [h \in Hosts |-> Idle]
    /\ last = EnvObs
    /\ env = NoEnv
    /\ db = PurgeStore({"A", "B"})

SpecDryRun == InitDryRun /\ [][NextDryRun]_vars

-----------------------------------------------------------------------------
(* Gateway (client.py) and the context command (cli.py) *)

\* What the remote endpoint does with one request: the connection fails,
\* the HTTP status is an error, the JSON-RPC reply carries an error, or it
\* carries a result.
GatewayFailures == {"transport", "http_error", "rpc_error"}
Failed(kind) == [kind |-> kind]
Result(result) == [kind |-> "result", result |-> result]

\* AgentMailClient.call_tool: one POST; raise_for_status and an "error"
\* member raise.
CallTool(response) ==
    IF response.kind = "result"
    THEN [out |-> "ok", result |-> response.result, requests |-> 1]
    ELSE [out |-> "raise", error |-> response.kind, requests |-> 1]

\* AgentMailClient.whois, fetch_inbox
Whois(response) == CallTool(response)
FetchInbox(response) == CallTool(response)

\* The two listings context asks its client for.
ListAcksPending(response) == CallTool(response)
ListFileReservations(response) == CallTool(response)

\* What a run of the issue tracker executable ends with.
BdLaunchFailures == {"no_executable", "no_cwd", "cwd_not_dir", "permission"}
BdRunFailures == {"timeout", "nonzero", "empty", "not_json"}
BdItems == {"issue", "text"}
BdJson ==
    {[kind |-> "object"]}
        \cup {[kind |-> "list", items |-> items] :
                 items \in {<<>>} \cup {<<i>> : i \in BdItems}
                              \cup {<<"issue", i>> : i \in BdItems}
                              \cup {[i \in 1..(BeadsShown + 1) |-> "issue"]}}
BdOutcomes == {[kind |-> k] : k \in BdLaunchFailures \cup BdRunFailures} \cup BdJson

\* A run that would let a missing executable propagate.
RunBdCommandCatchingLess(outcome) ==
    IF outcome.kind \in {"timeout", "not_json", "nonzero", "empty"}
    THEN [out |-> "none"]
    ELSE IF outcome.kind \in BdLaunchFailures
    THEN [out |-> "raise"]
    ELSE [out |-> "json", value |-> outcome]

\* _run_bd_command: TimeoutExpired, FileNotFoundError and JSONDecodeError
\* are caught; NotADirectoryError and PermissionError are not.
RunBdCommand(outcome) ==
    IF outcome.kind \in {"timeout", "no_executable", "no_cwd", "not_json"}
    THEN [out |-> "none"]
    ELSE IF outcome.kind \in {"cwd_not_dir", "permission"}
    THEN [out |-> "raise"]
    ELSE IF outcome.kind \in {"nonzero", "empty"}
    THEN [out |-> "none"]
    ELSE [out |-> "json", value |-> outcome]

\* context, lines 952-960 and 963-972: the issues kept of one listing.
\* i.get raises for an item that is not an object.
BeadsOf(bd) ==
    IF bd.out = "raise" THEN [out |-> "raise"]
    ELSE IF bd.out = "none" \/ bd.value.kind # "list" \/ bd.value.items = <<>>
    THEN [out |-> "skip", items |-> <<>>, count |-> 0]
    ELSE LET all == bd.value.items
             shown == SubSeq(all, 1, IF Len(all) < BeadsShown THEN Len(all) ELSE BeadsShown)
         IN  IF \E i \in 1..Len(shown) : shown[i] # "issue"
             THEN [out |-> "raise"]
             ELSE [out |-> "ok", items |-> shown, count |-> Len(all)]

\* The sections of the snapshot, from what the client calls returned.
AgentSection(agent, profile) ==
    IF profile.out = "ok"
    THEN [name |-> profile.result.name,
          task_description |-> profile.result.task_description]
    ELSE [name |-> agent, error |-> "Could not fetch profile"]

ListSection(call) == IF call.out = "ok" THEN call.result ELSE <<>>

ReservedSection(agent, call) ==
    IF call.out = "ok"
    THEN SelectSeq(call.result, LAMBDA r : r.agent = agent)
    ELSE <<>>

\* context: the snapshot built from the answers e, or the failure that
\* reaches handle_error.
Context(agent, e) ==
    LET profile == Whois(e.whois)
        inbox == FetchInbox(e.inbox)
        acks == ListAcksPending(e.acks)
        reservations == ListFileReservations(e.reservations)
        in_progress == BeadsOf(RunBdCommand(e.bd_in_progress))
        blocked == BeadsOf(RunBdCommand(e.bd_blocked))
        remote == <<"whois", "fetch_inbox", "list_acks_pending", "list_file_reservations">>
        requests == [whois |-> profile.requests, inbox |-> inbox.requests,
                     acks |-> acks.requests, reservations |-> reservations.requests]
    IN  IF in_progress.out = "raise"
        THEN [exit |-> 1, requests |-> requests,
              fetched |-> remote \o <<"bd in_progress">>]
        ELSE IF blocked.out = "raise"
        THEN [exit |-> 1, requests |-> requests,
              fetched |-> remote \o <<"bd in_progress", "bd blocked">>]
        ELSE [exit |-> 0, requests |-> requests,
              fetched |-> remote \o <<"bd in_progress", "bd blocked">>,
              agent |-> AgentSection(agent, profile),
              attention_needed |->
                  [unread_messages |-> Len(ListSection(inbox)),
                   pending_acks |-> Len(ListSection(acks)),
                   blocked_tasks |-> blocked.count],
              messages |-> [unread |-> ListSection(inbox),
                            pending_acks |-> ListSection(acks)],
              files |-> [reserved |-> ReservedSection(agent, reservations)],
              beads |-> [in_progress |-> in_progress.items,
                         blocked |-> blocked.items]]

\* The answers the sources can give.
Profiles == {[name |-> "A", task_description |-> "task"]}
InboxLists == {<<>>, <<"m1">>}
AckLists == {<<"m2">>}
ReservationLists == {<<>>, <<[agent |-> "B", path_pattern |-> "src"],
                            [agent |-> "A", path_pattern |-> "docs"]>>}
Answers ==
    [whois |-> {Failed(k) : k \in GatewayFailures} \cup {Result(x) : x \in Profiles},
     inbox |-> {Failed("transport")} \cup {Result(x) : x \in InboxLists},
     acks |-> {Failed("http_error")} \cup {Result(x) : x \in AckLists},
     reservations |-> {Failed("rpc_error")} \cup {Result(x) : x \in ReservationLists},
     bd_in_progress |-> BdOutcomes,
     bd_blocked |-> BdOutcomes]

\* One source answers differently from now on.
SourceChanges(source, answer) ==
    /\ answer \in Answers[source] /\ answer # env[source]
    /\ env' = [env EXCEPT ![source] = answer]
    /\ last' = EnvObs
    /\ UNCHANGED <<now, files, procs, reg, db>>

\* agent-mail context AGENT [--json]
ContextCmd(agent, as_json) ==
    /\ last' = [op |-> "context", who |-> agent, as_json |-> as_json]
                   @@ Context(agent, env)
    /\ UNCHANGED <<now, files, procs, reg, db, env>>

\* agent-mail whoami AGENT [--json]
Whoami(agent, as_json) ==
    LET r == Whois(env.whois) IN
    /\ last' = [op |-> "whoami", agent |-> agent, as_json |-> as_json,
                exit |-> IF r.out = "ok" THEN 0 ELSE 1,
                requests |-> r.requests, call |-> r]
    /\ UNCHANGED <<now, files, procs, reg, db, env>>

NextContext ==
    \/ \E source \in DOMAIN Answers : \E answer \in Answers[source] :
            SourceChanges(source, answer)
    \/ \E as_json \in BOOLEAN : ContextCmd("A", as_json)
    \/ \E as_json \in BOOLEAN : Whoami("A", as_json)

\* Every source answers; the tracker has nothing to list.
InitContext ==
    /\ now = 0
    /\ files = [a \in Agents |-> NoFile]
    /\ procs = [h \in Hosts |-> "user"]
    /\ reg = [h \in Hosts |-> Idle]
    /\ last = EnvObs
    /\ db = InitialStore(AgentNames)
    /\ env = [whois |-> Result([name |-> "A", task_description |-> "task"]),
              inbox |-> Result(<<>>),
              acks |-> Result(<<"m2">>),
              reservations |-> Result(<<>>),
              bd_in_progress |-> [kind |-> "list", items |-> <<>>],
              bd_blocked |-> [kind |-> "list", items |-> <<>>]]

SpecContext == InitContext /\ [][NextContext]_vars

-----------------------------------------------------------------------------
(* register: which agent to register as (cli.py) *)

\* The value of an option that was not given.  None and the empty string
\* are both false in every test the command makes.
NoName == ""

\* The names the server lists, and the one it assigns to a registration
\* that names nobody.
ListedNames == {"A", "B", "Deleted-C"}
AssignedName == "N"

\* last_active_ts: an earlier and a later instant.
Stamps == {1, 2}
\* A soft-deleted agent has a blocking contact policy.
ContactPolicies == {"open", "block_all"}
MaxListed == 3
AgentRows ==
    {row \in [name : ListedNames, contact_policy : ContactPolicies,
              last_active_ts : Stamps] :
        row.name = "Deleted-C" => row.contact_policy = "block_all"}

\* name.startswith("Deleted-")
StartsWithDeleted(name) == \E n \in AgentNames : name = "Deleted-" \o n

\* list.sort(key = last_active_ts, reverse = True): a stable sort, equal
\* keys keep the order of the listing.
RECURSIVE SortByLastActive(_)
SortByLastActive(rows) ==
    IF rows = <<>> THEN <<>>
    ELSE LET sorted == SortByLastActive(Tail(rows))
             before == SelectSeq(sorted, LAMBDA r :
                           r.last_active_ts > Head(rows).last_active_ts)
             after == SelectSeq(sorted, LAMBDA r :
                           r.last_active_ts <= Head(rows).last_active_ts)
         IN  before \o <<Head(rows)>> \o after

\* A lookup that would resume soft-deleted and blocking agents too.
FindResumableAgentUnfiltered(agents) ==
    IF agents = <<>> THEN NoName ELSE SortByLastActive(agents)[1].name

\* _find_resumable_agent: the name of the agent found, NoName for None.
FindResumableAgent(agents) ==
    LET active_agents == SelectSeq(agents, LAMBDA a :
                             /\ ~StartsWithDeleted(a.name)
                             /\ a.contact_policy # "block_all")
    IN  IF active_agents = <<>> THEN NoName
        ELSE SortByLastActive(active_agents)[1].name

\* AgentMailClient.list_agents
ListAgents(response) == CallTool(response)

\* AgentMailClient.register_agent: the name argument is sent only when it
\* is set; the server answers with the name it registered.
RegisterAgent(name, response) ==
    CallTool(IF response.kind = "result"
             THEN Result([name |-> IF name # NoName THEN name ELSE AssignedName])
             ELSE response)

\* What the server does with the calls of one register.
ServerMoods == {"ok", "no_project", "no_listing", "no_register"}

\* The names that can be named again.  The server assigns a fresh name to
\* each registration that names nobody, so no later command finds the
\* session file written under it.
SessionNames == ListedNames

ResumeObs(as_agent, name, resume, force, effective_name, listed, checked, sent, exit, out) ==
    [op |-> "register", as_agent |-> as_agent, name |-> name, resume |-> resume,
     force |-> force, effective_name |-> effective_name, listed |-> listed,
     checked |-> checked, sent |-> sent, exit |-> exit, out |-> out]

\* register [--as A] [--name N] [--resume] [--force], run by host h.
Register(h, as_agent, name, resume, force, mood) ==
    LET given == IF as_agent # NoName THEN as_agent ELSE name
        listed == resume /\ given = NoName
        agents == ListAgents(IF mood = "no_listing" THEN Failed("transport")
                             ELSE Result(env.agents))
        effective_name == IF listed /\ agents.out = "ok"
                          THEN FindResumableAgent(agents.result)
                          ELSE given
        checked == effective_name # NoName /\ ~force
        c == CheckSessionConflict(files[effective_name], CliPid, procs[h], now)
        result == RegisterAgent(effective_name,
                                IF mood = "no_register" THEN Failed("rpc_error")
                                ELSE Result(<<>>))
        agent_name == result.result.name
        w == WriteSession(IF checked THEN c.file
                          ELSE IF agent_name \in SessionNames THEN files[agent_name]
                          ELSE NoFile,
                          agent_name, MaxTtl, now,
                          StablePid(CliPid, [kind |-> "ok", parent |-> ShellPid,
                                             ppid |-> h]), h)
        obs(lst, chk, sent, exit, out) ==
            ResumeObs(as_agent, name, resume, force,
                      IF lst = listed THEN effective_name ELSE given,
                      lst, chk, sent, exit, out)
    IN
    /\ UNCHANGED <<now, procs, reg, db, env>>
    /\ IF mood = "no_project"
       THEN /\ last' = obs(FALSE, FALSE, FALSE, 1, "remote_error")
            /\ UNCHANGED files
       ELSE IF listed /\ agents.out = "raise"
       THEN /\ last' = obs(TRUE, FALSE, FALSE, 1, "remote_error")
            /\ UNCHANGED files
       ELSE IF checked /\ c.out = "raise"
       THEN /\ last' = obs(listed, TRUE, FALSE, 1, "error")
            /\ UNCHANGED files
       ELSE IF checked /\ c.out = "conflict"
       THEN /\ last' = obs(listed, TRUE, FALSE, 1, "conflict")
            /\ UNCHANGED files
       ELSE IF result.out = "raise"
       THEN /\ last' = obs(listed, checked, TRUE, 1, "remote_error")
            /\ files' = IF checked THEN [files EXCEPT ![effective_name] = c.file]
                        ELSE files
       ELSE IF w.out = "raise"
       THEN /\ last' = obs(listed, checked, TRUE, 1, "error")
            /\ files' = IF checked THEN [files EXCEPT ![effective_name] = c.file]
                        ELSE files
       ELSE /\ last' = obs(listed, checked, TRUE, 0, agent_name)
            /\ files' = IF agent_name \in SessionNames
                        THEN [files EXCEPT ![agent_name] = w.file]
                        ELSE files

\* The server lists one more agent.
AgentListed(row) ==
    /\ Len(env.agents) < MaxListed
    /\ \A i \in 1..Len(env.agents) : env.agents[i].name # row.name
    /\ env' = [env EXCEPT !.agents = Append(@, row)]
    /\ last' = EnvObs
    /\ UNCHANGED <<now, files, procs, reg, db>>

\* The session of an agent ends.
SessionGone(agent) ==
    /\ files[agent] # NoFile
    /\ files' = [files EXCEPT ![agent] = NoFile]
    /\ last' = EnvObs
    /\ UNCHANGED <<now, procs, reg, db, env>>

NextResume ==
    \/ \E row \in AgentRows : AgentListed(row)
    \/ \E agent \in SessionNames : SessionGone(agent)
    \/ \E as_agent \in {NoName, "A"}, name \in {NoName, "B"},
          resume \in BOOLEAN, force \in BOOLEAN, mood \in ServerMoods :
            Register(MaxHost, as_agent, name, resume, force, mood)

InitResume ==
    /\ now = 0
    /\ files = [n \in SessionNames |-> NoFile]
    /\ procs = [h \in Hosts |-> "user"]
    /\ reg = [h \in Hosts |-> Idle]
    /\ last = EnvObs
    /\ db = InitialStore(AgentNames)
    /\ env = [kind |-> "server", agents |-> <<>>]

SpecResume == InitResume /\ [][NextResume]_vars

-----------------------------------------------------------------------------
(* session heartbeat, step by step (cli.py) *)

\* The position of a heartbeat between its own read of the session
\* (cli.py:246) and the write (cli.py:256).
Beating(a) == [stage |-> "read", agent |-> a]

\* session heartbeat, lines 245-253: the read, and the exit when it finds
\* no record.
HeartbeatRead(h, a) ==
    LET t == now + 1
        r == ReadSession(files[a], t)
    IN
    /\ h \in DOMAIN procs
    /\ reg[h] = Idle
    /\ t <= MaxTime
    /\ now' = t
    /\ UNCHANGED <<procs, db, env>>
    /\ IF r.out = "raise"
       THEN /\ last' = Obs("heartbeat", h, a, FALSE, 1, "error", Seen(files[a], t), NoFile, FALSE)
            /\ UNCHANGED <<files, reg>>
       ELSE IF r.out = "absent"
       THEN /\ files' = [files EXCEPT ![a] = r.file]
            /\ last' = Obs("heartbeat", h, a, FALSE, 1, "no_session", Seen(files[a], t), NoFile, FALSE)
            /\ UNCHANGED reg
       ELSE /\ reg' = [reg EXCEPT ![h] = Beating(a)]
            /\ last' = Obs("heartbeat_read", h, a, FALSE, 0, "found", Seen(files[a], t), NoFile, FALSE)
            /\ UNCHANGED files

\* session heartbeat, lines 255-261: _write_session, which reads the
\* session again (cli.py:145) and writes the record.
HeartbeatWrite(h, ttl, lk) ==
    LET t == now + 1
        a == reg[h].agent
        r == ReadSession(files[a], t)
        w == WriteSession(files[a], a, ttl, t, StablePid(CliPid, lk),
                          IF r.out = "data" THEN r.file.by ELSE h)
    IN
    /\ reg[h].stage = "read"
    /\ lk.ppid = h => h \in DOMAIN procs
    /\ t <= MaxTime
    /\ now' = t
    /\ reg' = [reg EXCEPT ![h] = Idle]
    /\ UNCHANGED <<procs, db, env>>
    /\ IF w.out = "raise"
       THEN /\ last' = Obs("heartbeat", h, a, FALSE, 1, "error", Seen(files[a], t), NoFile, FALSE)
            /\ UNCHANGED files
       ELSE /\ files' = [files EXCEPT ![a] = AfterExit(w.file)]
            /\ last' = Obs("heartbeat", h, a, FALSE, 0, "ok", Seen(files[a], t),
                           Written(ttl, w, r), FALSE)

NextBeat ==
    \/ \E h \in Hosts, a \in Agents : HeartbeatRead(h, a)
    \/ \E h \in Hosts, ttl \in TtlValues :
          \E lk \in Lookups(h) : HeartbeatWrite(h, ttl, lk)
    \/ \E h \in Hosts, a \in Agents : SessionEnd(h, a)
    \/ \E h \in Hosts, a \in Agents : RegisterCheck(h, a, FALSE, TRUE)
    \/ \E h \in Hosts, ttl \in TtlValues :
          \E lk \in Lookups(h) : RegisterFinish(h, ttl, TRUE, lk)
    \/ \E a \in Agents, kind \in CorruptKinds : CorruptFile(a, kind)
    \/ Tick

SpecBeat == InitStore /\ [][NextBeat]_vars

-----------------------------------------------------------------------------
(* Configuration (client.py) *)

\* An optional text: a variable that is not set, a key that is not in the
\* file, None.
Unset == <<>>
Text(v) == <<v>>

DefaultUrl == "http://127.0.0.1:8765/mcp/"

\* float(text): the texts that are numbers; every other text raises
\* ValueError.
Floats == ("30" :> DefaultTimeout) @@ ("5" :> 5) @@ ("7" :> 7)

\* The lines of the config file: key=value, or a comment.
Pair(key, value) == [kind |-> "pair", key |-> key, value |-> value]
Comment == [kind |-> "comment"]
ConfigLines ==
    {Pair("url", "http://file/"), Pair("timeout", "7"), Pair("timeout", "abc"),
     Comment}
MaxLines == 2
Unreadable == [kind |-> "unreadable"]
ConfigFiles ==
    {Unreadable}
        \cup {[kind |-> "file", lines |-> lines] :
                 lines \in UNION {[1..n -> ConfigLines] : n \in 0..MaxLines}}
ConfigKeys == {"url", "timeout"}

\* _read_config_file: the dict of the key=value lines, a later line
\* replacing an earlier one; {} when the file is missing or cannot be read.
ReadConfigFile(file) ==
    [key \in ConfigKeys |->
        IF file.kind # "file" THEN Unset
        ELSE LET at == {i \in 1..Len(file.lines) :
                           /\ file.lines[i].kind = "pair"
                           /\ file.lines[i].key = key}
             IN  IF at = {} THEN Unset
                 ELSE Text(file.lines[CHOOSE i \in at : \A j \in at : j <= i].value)]

\* _read_token_file: the stripped content; None when the file is missing,
\* cannot be read or is empty.
ReadTokenFile(file) ==
    IF file = Unset \/ file = Text("") THEN Unset ELSE file

\* dict.get(key, default) and os.environ.get(name, default)
Get(value, default) == IF value # Unset THEN value[1] ELSE default

\* AgentMailConfig.from_env
FromEnv(e) ==
    LET file_config == ReadConfigFile(e.config_file)
        file_token == ReadTokenFile(e.token_file)
        server_url == Get(e.environ.url, Get(file_config["url"], DefaultUrl))
        timeout == Get(e.environ.timeout, Get(file_config["timeout"], "30"))
        bearer_token == IF e.environ.token # Unset /\ e.environ.token # Text("")
                        THEN e.environ.token
                        ELSE file_token
    IN  IF timeout \notin DOMAIN Floats
        THEN [out |-> "raise"]
        ELSE [out |-> "ok",
              config |-> [server_url |-> server_url, timeout |-> Floats[timeout],
                          bearer_token |-> bearer_token]]

\* AgentMailClient._get_headers: the token sent as Authorization, if any.
GetHeaders(bearer_token) ==
    IF bearer_token # Unset /\ bearer_token # Text("") THEN bearer_token ELSE Unset

\* What the environment variables and the two files can hold.
Settings ==
    [url |-> {Unset, Text(""), Text("http://env/")},
     timeout |-> {Unset, Text("5"), Text("abc")},
     token |-> {Unset, Text(""), Text("envtoken")}]
TokenFiles == {Unset, Text(""), Text("filetoken")}

\* An environment variable is set, changed or unset.
SetVariable(name, value) ==
    /\ value \in Settings[name] /\ value # env.environ[name]
    /\ env' = [env EXCEPT !.environ[name] = value]
    /\ last' = EnvObs
    /\ UNCHANGED <<now, files, procs, reg, db>>

\* The config file is written, or removed.
WriteConfigFile(file) ==
    /\ file # env.config_file
    /\ env' = [env EXCEPT !.config_file = file]
    /\ last' = EnvObs
    /\ UNCHANGED <<now, files, procs, reg, db>>

\* The token file is written, or removed.
WriteTokenFile(file) ==
    /\ file # env.token_file
    /\ env' = [env EXCEPT !.token_file = file]
    /\ last' = EnvObs
    /\ UNCHANGED <<now, files, procs, reg, db>>

\* get_client: a command builds its client.
GetClient ==
    /\ last' = [op |-> "get_client"] @@ FromEnv(env)
    /\ UNCHANGED <<now, files, procs, reg, db, env>>

NextConfig ==
    \/ \E name \in DOMAIN Settings : \E value \in Settings[name] :
            SetVariable(name, value)
    \/ \E file \in ConfigFiles : WriteConfigFile(file)
    \/ \E file \in TokenFiles : WriteTokenFile(file)
    \/ GetClient

InitConfig ==
    /\ now = 0
    /\ files = [a \in Agents |-> NoFile]
    /\ procs = [h \in Hosts |-> "user"]
    /\ reg = [h \in Hosts |-> Idle]
    /\ last = EnvObs
    /\ db = InitialStore(AgentNames)
    /\ env = [kind |-> "config",
              environ |-> [url |-> Unset, timeout |-> Unset, token |-> Unset],
              config_file |-> Unreadable,
              token_file |-> Unset]

SpecConfig == InitConfig /\ [][NextConfig]_vars

-----------------------------------------------------------------------------
(* Claims *)

\* A successful session write by heartbeat or register.
WriteOk == last.op \in {"heartbeat", "register"} /\ last.out = "ok"

\* The step is the conflict check of a register without force by host h for
\* agent a (the project lookup having succeeded).
IsConflictCheck(h, a) ==
    /\ last'.op \in {"register", "register_check"}
    /\ last'.host = h /\ last'.agent = a
    /\ ~last'.force /\ ~last'.called
    /\ last'.out \in {"conflict", "free", "error"}

\* Every command of the CLI, as it shows in the observation.
CliOps == {"register", "register_check", "heartbeat", "status", "end"}

C2_SelfReentry ==
    (last.op = "register" /\ last.out = "conflict")
        => files[last.agent].by # last.host

\* C3: the conflict check of a caller that finds an unexpired record whose
\* pid is a running process other than the caller's host reports the record
\* and leaves the file; once that process has exited the check reports no
\* conflict and the file is removed.
C3_ConflictDetection ==
    [][\A h \in Hosts, a \in Agents :
         (IsConflictCheck(h, a) /\ files[a].kind = "valid" /\ files[a].expires_at >= now')
            => IF files[a].pid \in DOMAIN procs
               THEN files[a].pid # h => (last'.out = "conflict" /\ files' = files)
               ELSE last'.out = "free" /\ files'[a] = NoFile]_vars

\* C4: under every interleaving of register invocations made without force by
\* distinct live hosts, no register for an agent succeeds for a second host
\* while the record of the first claimant is in place and unexpired and the
\* claimant is alive.
C4_AtMostOneClaimant ==
    [][\A a \in Agents :
         (/\ last'.op = "register" /\ last'.out = "ok" /\ last'.agent = a
          /\ files[a].kind = "valid" /\ files[a].expires_at >= now'
          /\ files[a].by \in DOMAIN procs)
            => last'.host = files[a].by]_vars

\* C5: when the conflict check of a register without force returns a record,
\* the command exits 1 reporting the pid of the record and its remaining
\* lifetime, never goes on to call register_agent, and leaves the session
\* file unchanged.
C5_ConflictIsHardStop ==
    [][\A h \in Hosts, a \in Agents :
         (/\ reg[h] = Idle
          /\ last'.op \in {"register", "register_check"}
          /\ last'.host = h /\ last'.agent = a
          /\ ~last'.force /\ last'.out # "remote_error"
          /\ CheckSessionConflict(files[a], CliPid, procs[h], now').out = "conflict")
            => /\ last'.op = "register" /\ last'.out = "conflict" /\ last'.exit = 1
               /\ last'.ret = [conflict_pid |-> files[a].pid,
                               expires_in |-> <<files[a].expires_at - now', "s">>]
               /\ ~last'.called /\ reg'[h] = Idle
               /\ files' = files]_vars

C5_Witness ==
    /\ last.op = "register" /\ last.out = "conflict" /\ last.exit = 1
    /\ last.ret.conflict_pid \in DOMAIN procs
    /\ last.ret.expires_in[1] > 0

\* C6: while the record of an agent is unexpired and its pid is a live
\* process, no command run by another process, other than a successful
\* register with force, ends the conflict: the record stays in place,
\* unexpired, with the pid of a live process.
C6_ConflictUntilExpiry ==
    [][\A a \in Agents :
         (/\ files[a].kind = "valid" /\ files[a].expires_at >= now'
          /\ files[a].pid \in DOMAIN procs
          /\ last'.op \in CliOps /\ last'.agent = a /\ last'.host # files[a].pid
          /\ ~(last'.op = "register" /\ last'.force /\ last'.out = "ok"))
            => /\ files'[a].kind = "valid" /\ files'[a].expires_at >= now'
               /\ files'[a].pid \in DOMAIN procs']_vars

\* C7: every record written by register or heartbeat stores the pid of an
\* ancestor of the CLI process (its host or its parent), never the pid of the
\* CLI process itself, whatever the ancestor lookup gave.
C7_StoredPidIsAncestor ==
    WriteOk => /\ last.ret.data.pid # CliPid
               /\ last.ret.data.pid \in {last.host, ShellPid}

\* C8: a command that reads a record whose expires_at is in the past goes on
\* exactly as with no file (status reports no session, heartbeat fails with
\* no session, the conflict check finds nothing, a register creates a new
\* record), and the read leaves no file.
C8_ExpiredIsMissing ==
    (last.seen \in {"expired", "none"} /\ last.op \in CliOps)
        => /\ last.op = "status"
                => last.out = "inactive" /\ last.exit = 0 /\ files[last.agent] = NoFile
           /\ last.op = "heartbeat"
                => last.out = "no_session" /\ last.exit = 1 /\ files[last.agent] = NoFile
           /\ (last.op = "register_check" /\ ~last.force)
                => last.out = "free" /\ files[last.agent] = NoFile
           /\ last.op = "register"
                => /\ last.out \in {"ok", "remote_error"}
                   /\ last.out = "ok" => /\ last.ret.prev_expires = 0
                                         /\ last.ret.data.started_at = now

C8_Witness ==
    /\ last.op \in {"status", "heartbeat"} /\ last.seen = "expired"
    /\ files[last.agent] = NoFile

\* C9: a command that finds a corrupt session file (not JSON, not an object,
\* expires_at missing, not a string, not a timestamp, or without timezone)
\* goes on as if the file were absent; reading the file raises nothing.
C9_CorruptIsAbsent ==
    (last.seen \in CorruptKinds) => last.out # "error"

\* C10: a successful write by heartbeat or register made while an unexpired
\* record is in place keeps the started_at of that record; a write that
\* creates the record sets started_at to the clock.
C10_StartedAtPreserved ==
    [][\A a \in Agents :
         (last'.op \in {"heartbeat", "register"} /\ last'.out = "ok" /\ last'.agent = a)
            => files'[a].started_at =
                  IF files[a].kind = "valid" /\ files[a].expires_at >= now'
                  THEN files[a].started_at ELSE now']_vars

C10_Witness ==
    /\ WriteOk /\ last.seen = "live"
    /\ files[last.agent].started_at < now

\* The step ends a register of host h that had passed its conflict check,
\* without a session write: the process is killed, the remote call fails or
\* the write raises.
IsRegisterStop(h) ==
    /\ reg[h] # Idle /\ reg'[h] = Idle
    /\ ~(last'.op = "register" /\ last'.out = "ok")

\* C11, as stated: when a register stops before its session write (here right
\* after its conflict check), the session file is what it was before the
\* invocation.
C11_StoreAsBeforeInvocation ==
    [][\A h \in Hosts :
         (last.op = "register_check" /\ last.host = h /\ IsRegisterStop(h))
            => files'[reg[h].agent].kind =
                  IF last.seen \in {"live", "expired"} THEN "valid" ELSE last.seen]_vars

\* C11, amended: a register that stops before its session write writes no
\* record: its conflict check leaves the session file as it was or removes
\* it, the stop itself changes no session file, and the host is free to
\* register again.
C11_StoppedRegisterWritesNothing ==
    [][\A h \in Hosts :
         /\ (reg[h] = Idle /\ last'.host = h
                /\ last'.op \in {"register", "register_check"})
               => \A a \in Agents : files'[a] \in {files[a], NoFile}
         /\ IsRegisterStop(h) => files' = files]_vars

C11_Witness ==
    /\ last.op = "register" /\ last.out = "remote_error" /\ last.called
    /\ reg[last.host] = Idle
    /\ files[last.agent] = NoFile

\* The data model's counts for agent a in store d: recipient links with
\* read_ts null, reservations with released_ts null and expires_ts absent or
\* in the future, messages authored.
Unread(d, a) == CopiesIn([agent |-> a, read |-> FALSE], d.recipients)
Active(d, a) ==
    CopiesIn([agent |-> a, released |-> FALSE, expires |-> "null"], d.reservations)
        + CopiesIn([agent |-> a, released |-> FALSE, expires |-> "future"], d.reservations)
Sent(d, a) == CopiesIn(a, d.messages)

\* C12: for every store state and every existing agent the dependency
\* snapshot reports the agent's unread recipient links, active reservations
\* and authored messages, and can_delete exactly when the first two are 0.
C12_SnapshotCounts ==
    (last.op = "dependencies" /\ last.project = Project /\ last.agent \in db.agents)
        => /\ last.out = "ok"
           /\ last.ret.unread_messages = Unread(db, last.agent)
           /\ last.ret.active_reservations = Active(db, last.agent)
           /\ last.ret.sent_messages = Sent(db, last.agent)
           /\ last.ret.can_delete
                <=> (Unread(db, last.agent) = 0 /\ Active(db, last.agent) = 0)

C12_Witness ==
    /\ last.op = "dependencies" /\ last.out = "ok"
    /\ last.ret.unread_messages > 0 /\ last.ret.active_reservations > 0
    /\ ~last.ret.can_delete

\* The step is delete_agent for an existing agent a of the project.
IsDeleteOf(a, force) ==
    /\ last'.op = "delete_agent" /\ last'.project = Project
    /\ last'.agent = a /\ last'.force = force
    /\ a \in db.agents

\* C13: a delete without force of an agent that has an unread message or an
\* active reservation fails with an error carrying both counts and changes
\* nothing in the store.
C13_ConflictChangesNothing ==
    [][\A a \in AgentNames :
         (IsDeleteOf(a, FALSE) /\ (Unread(db, a) > 0 \/ Active(db, a) > 0))
            => /\ last'.out = "conflict" /\ last'.exit = 1
               /\ last'.ret = [unread_messages |-> Unread(db, a),
                               active_reservations |-> Active(db, a)]
               /\ db' = db]_vars

C13_Witness ==
    /\ last.op = "delete_agent" /\ last.out = "conflict" /\ ~last.force
    /\ last.ret.unread_messages > 0
    /\ last.agent \in db.agents

\* C14: a successful delete keeps the row of the agent (renamed, so that the
\* original name no longer resolves): the store holds as many agent rows
\* after the delete as before it.
C14_SoftDeleteKeepsRow ==
    [][(last'.op = "delete_agent" /\ last'.out = "ok")
          => /\ Cardinality(db'.agents) = Cardinality(db.agents)
             /\ last'.agent \notin db'.agents]_vars

C17_ForcedDeleteReleasesActive ==
    [][\A a \in AgentNames :
         IsDeleteOf(a, TRUE)
            => /\ last'.out = "ok"
               /\ last'.ret.released_reservations = Active(db, a)]_vars

\* C18: once an agent is deleted its name no longer resolves, and every
\* dependencies or delete call for a name that has no agent row, or for a
\* project that does not exist, fails with not-found and changes nothing.
C18_NotFoundAfterDelete ==
    [][/\ (last'.op = "delete_agent" /\ last'.out = "ok") => last'.agent \notin db'.agents
       /\ \A a \in AgentNames : a \notin db.agents => a \notin db'.agents
       /\ (/\ last'.op \in {"dependencies", "delete_agent"}
           /\ (last'.agent \notin db.agents \/ last'.project # Project))
             => last'.out = "not_found" /\ last'.exit = 1 /\ db' = db]_vars

C18_Witness ==
    /\ last.op = "dependencies" /\ last.out = "not_found"
    /\ last.project = Project
    /\ last.agent \in {"A", "B"} /\ last.agent \notin db.agents

\* The rows of the store that belong to agent a.
RowsOf(d, a) ==
    [agent |-> a \in d.agents,
     recipients |-> [mr \in RecipientRows |->
                        IF mr.agent = a THEN CopiesIn(mr, d.recipients) ELSE 0],
     reservations |-> [r \in ReservationRows |->
                          IF r.agent = a THEN CopiesIn(r, d.reservations) ELSE 0]]

\* C19: a delete of three existing agents without force, where only the
\* second has unread messages and none has an active reservation, deletes
\* the first and the third, reports a conflict for the second only and
\* leaves its rows as they were, and exits non-zero, in either output mode.
C19_BatchIsolation ==
    [][\A b \in Batches :
         (/\ last'.op = "delete" /\ last'.agents = b /\ Len(b) = 3
          /\ last'.project = Project
          /\ ~last'.force /\ ~last'.dry_run
          /\ \A i \in 1..3 : b[i] \in db.agents /\ Active(db, b[i]) = 0
          /\ Unread(db, b[1]) = 0 /\ Unread(db, b[2]) > 0 /\ Unread(db, b[3]) = 0)
            => /\ db'.agents = {b[2]}
               /\ [i \in 1..Len(last'.results) |-> last'.results[i].agent] = <<b[1], b[3]>>
               /\ last'.errors = <<[agent |-> b[2], error |-> "conflict"]>>
               /\ RowsOf(db', b[2]) = RowsOf(db, b[2])
               /\ last'.exit # 0]_vars

\* C20: a run of the delete command with --json and the run without it from
\* the same store make the same calls, leave the same store and end with the
\* same exit status.
C20_JsonOnlyRendering ==
    [][last'.op = "delete"
          => LET other == DeleteCommand(db, last'.project, last'.agents, last'.force,
                                        last'.dry_run, ~last'.as_json)
             IN  /\ other.calls = last'.calls
                 /\ other.db = db'
                 /\ other.exit = last'.exit]_vars

\* C25: a register --force that succeeds for a name whose unexpired record
\* is held by another live process leaves a record whose pid is the forcing
\* caller's host process and whose expires_at is now + ttl; and a non-force
\* register for that name by the other host, right after it and before the
\* new record expires, is reported as a conflict.
C25_ForceTakesOver ==
    [][\A h \in Hosts, a \in Agents :
         /\ (/\ last'.op = "register" /\ last'.out = "ok" /\ last'.force
             /\ last'.host = h /\ last'.agent = a
             /\ files[a].kind = "valid" /\ files[a].expires_at >= now'
             /\ files[a].by # h /\ files[a].by \in DOMAIN procs)
               => /\ files'[a].pid = h
                  /\ files'[a].expires_at = now' + last'.ret.ttl
         /\ (/\ last.op = "register" /\ last.out = "ok" /\ last.force
             /\ last.host = h /\ last.agent = a /\ last.seen = "live"
             /\ last'.op \in {"register", "register_check"} /\ ~last'.force
             /\ last'.host # h /\ last'.agent = a /\ last'.out # "remote_error"
             /\ files[a].kind = "valid" /\ files[a].expires_at >= now')
               => last'.out = "conflict"]_vars

\* C26: a delete of an agent whose reservations are all released already
\* changes no reservation row and reports zero released reservations.
C26_ReleaseIdempotent ==
    [][\A a \in AgentNames :
         (/\ last'.op = "delete_agent" /\ last'.out = "ok" /\ last'.agent = a
          /\ \A r \in DOMAIN db.reservations : r.agent = a => r.released)
            => /\ db'.reservations = db.reservations
               /\ last'.ret.released_reservations = 0]_vars

C26_Witness ==
    /\ last.op = "delete_agent" /\ last.out = "ok"
    /\ last.ret.released_reservations = 0
    /\ \E r \in DOMAIN db.reservations : r.agent = last.agent /\ r.released

\* C29: session end removes the session file of its agent and project and
\* reports true when the file exists, reports false and changes nothing
\* when it does not; a second session end right after the first changes
\* nothing; no other session file is ever touched.
C29_ClearIdempotent ==
    [][last'.op = "end"
          => LET path == SessionFile(last'.project, last'.agent) IN
             /\ \A other \in SessionFiles \ {path} : files'[other] = files[other]
             /\ files'[path] = NoFile
             /\ (files[path] # NoFile) <=> (last'.out = "cleared")
             /\ (files[path] = NoFile) => (files' = files /\ last'.out = "not_cleared")
             /\ (last.op = "end" /\ last.project = last'.project /\ last.agent = last'.agent)
                   => (files' = files /\ last'.out = "not_cleared")]_vars

C29_Witness ==
    /\ last.op = "end" /\ last.out = "cleared"
    /\ files[SessionFile(last.project, last.agent)] = NoFile
    /\ \E other \in SessionFiles : files[other] # NoFile

\* The active reservations of the project, as the data model defines them.
ActiveReservations(d) ==
    [r \in {x \in DOMAIN d.reservations : IsActive(x)} |-> d.reservations[r]]

\* C28: an active-only reservation listing of the project returns exactly
\* its active reservations: released_ts null and expires_ts absent or in the
\* future.
C28_ActiveOnlyListings ==
    (/\ last.op \in {"file_reservations_active", "file_reservations_list"}
     /\ last.active_only /\ last.project = Project)
        => last.ret = ActiveReservations(db)

SectionsFromSources(snapshot, who, e) ==
    /\ e.whois.kind = "result" =>
           /\ snapshot.agent.name = e.whois.result.name
           /\ snapshot.agent.task_description = e.whois.result.task_description
    /\ e.whois.kind # "result" =>
           snapshot.agent = [name |-> who, error |-> "Could not fetch profile"]
    /\ snapshot.messages.unread =
           (IF e.inbox.kind = "result" THEN e.inbox.result ELSE <<>>)
    /\ snapshot.messages.pending_acks =
           (IF e.acks.kind = "result" THEN e.acks.result ELSE <<>>)
    /\ snapshot.attention_needed.unread_messages = Len(snapshot.messages.unread)
    /\ snapshot.attention_needed.pending_acks = Len(snapshot.messages.pending_acks)
    /\ snapshot.files.reserved =
           (IF e.reservations.kind = "result"
            THEN SelectSeq(e.reservations.result, LAMBDA r : r.agent = who)
            ELSE <<>>)

\* The issues a tracker listing contributes: the first BeadsShown of a JSON
\* list, nothing for any other outcome.
IssuesOf(outcome) ==
    IF outcome.kind = "list"
    THEN LET issues == SelectSeq(outcome.items, LAMBDA i : i = "issue")
         IN  IF Len(issues) <= BeadsShown THEN issues
             ELSE SubSeq(issues, 1, BeadsShown)
    ELSE <<>>

AllSources ==
    <<"whois", "fetch_inbox", "list_acks_pending", "list_file_reservations",
      "bd in_progress", "bd blocked">>

\* C21: whatever subset of the five sources of context fails, every source
\* is still fetched, each section holds its own source's result or the
\* placeholder of a failed source, and the command exits 0.
C21_SourcesIndependent ==
    (last.op = "context") =>
        /\ last.exit = 0
        /\ last.fetched = AllSources
        /\ SectionsFromSources(last, last.who, env)
        /\ last.beads.in_progress = IssuesOf(env.bd_in_progress)
        /\ last.beads.blocked = IssuesOf(env.bd_blocked)

\* C22: when the issue tracker executable is missing, context exits 0 with
\* the agent, messages and files sections holding what their sources
\* answered, both beads lists empty and blocked_tasks = 0.
C22_TrackerUnavailable ==
    (/\ last.op = "context"
     /\ env.bd_in_progress.kind = "no_executable"
     /\ env.bd_blocked.kind = "no_executable") =>
        /\ last.exit = 0
        /\ SectionsFromSources(last, last.who, env)
        /\ last.beads = [in_progress |-> <<>>, blocked |-> <<>>]
        /\ last.attention_needed.blocked_tasks = 0

C22_Witness ==
    /\ last.op = "context"
    /\ env.bd_in_progress.kind = "no_executable"
    /\ env.bd_blocked.kind = "no_executable"
    /\ env.whois.kind = "result"
    /\ last.messages.unread = <<"m1">>
    /\ last.messages.pending_acks = <<"m2">>
    /\ Len(last.files.reserved) = 1

\* C23: no outcome of the issue tracker call makes context exit non-zero.
C23_TrackerNeverFails ==
    (last.op = "context") => last.exit = 0

\* The rows of the listing a resume may pick.
Resumable(agents) ==
    {i \in 1..Len(agents) :
        /\ ~StartsWithDeleted(agents[i].name)
        /\ agents[i].contact_policy # "block_all"}

\* The register got an answer to its listing request.
ListingAnswered == last.listed /\ ~(last.out = "remote_error" /\ ~last.sent)

GatewaySources == {"whois", "inbox", "acks", "reservations"}

\* C30: every gateway call of a command sends one request, and a command
\* one of whose calls failed (transport, HTTP status or JSON-RPC error)
\* exits with status 1.
C30_FailureExitsAtOnce ==
    /\ (last.op = "whoami") =>
           /\ last.requests = 1
           /\ env.whois.kind \in GatewayFailures => last.exit = 1
    /\ (last.op = "context") =>
           /\ \A source \in GatewaySources : last.requests[source] = 1
           /\ (\E source \in GatewaySources : env[source].kind \in GatewayFailures)
                  => last.exit = 1

\* C34: a successful heartbeat leaves the agent, project, started_at and
\* pid of the session record as they were, whichever process runs it.
C34_HeartbeatKeepsOwner ==
    [][\A a \in Agents :
         (last'.op = "heartbeat" /\ last'.out = "ok" /\ last'.agent = a)
            => /\ last'.ret.data.agent = files[a].agent
               /\ last'.ret.data.project = files[a].project
               /\ last'.ret.data.started_at = files[a].started_at
               /\ last'.ret.data.pid = files[a].pid]_vars

\* C35: the conflict check of a register that finds an unexpired record
\* whose pid is a running process keeps the record and reports it as the
\* conflict, also when that process belongs to another user; it removes the
\* record and reports none only when that process has exited.
C35_ClearsOnlyDeadOwner ==
    [][\A h \in Hosts, a \in Agents :
         (IsConflictCheck(h, a) /\ files[a].kind = "valid" /\ files[a].expires_at >= now')
            => /\ files[a].pid \in DOMAIN procs
                     => last'.out = "conflict" /\ files'[a] = files[a]
               /\ (files'[a] = NoFile /\ last'.out = "free")
                     => files[a].pid \notin DOMAIN procs]_vars

\* The file holds a record that a read at clock t returns.
Live(f, t) == f.kind = "valid" /\ f.expires_at >= t

\* C38: a heartbeat whose read finds no record (file missing, record
\* expired, file unparsable) exits 1 and writes no record; a session that is
\* absent comes into being by a register only.
C38_HeartbeatNeverCreates ==
    [][\A a \in Agents :
         /\ (last'.op = "heartbeat" /\ last'.agent = a
              /\ reg[last'.host] = Idle
              /\ last'.seen \in {"none", "expired"} \cup CorruptKinds)
                => /\ last'.exit = 1
                   /\ files'[a] \in {files[a], NoFile}
         /\ (~Live(files[a], now') /\ Live(files'[a], now'))
                => last'.op = "register"]_vars

\* C37: in every snapshot of context each attention_needed count is the
\* length of the snapshot's list of the same source, and is 0 when that
\* source failed.
C37_CountsAgreeWithLists ==
    (last.op = "context" /\ last.exit = 0) =>
        /\ last.attention_needed.unread_messages = Len(last.messages.unread)
        /\ last.attention_needed.pending_acks = Len(last.messages.pending_acks)
        /\ last.attention_needed.blocked_tasks = Len(last.beads.blocked)
        /\ env.inbox.kind \in GatewayFailures
              => last.attention_needed.unread_messages = 0
        /\ env.acks.kind \in GatewayFailures
              => last.attention_needed.pending_acks = 0
        /\ env.bd_blocked.kind \in BdLaunchFailures \cup BdRunFailures
              => last.attention_needed.blocked_tasks = 0

\* C31: each of server URL, timeout and bearer token (as sent in the
\* Authorization header) is the value of its environment variable when that
\* is set, otherwise the value in the file when there is one, otherwise the
\* default; none depends on the others.
C31_EnvThenFileThenDefault ==
    (last.op = "get_client" /\ last.out = "ok") =>
        LET file_config == ReadConfigFile(env.config_file)
            file_token == ReadTokenFile(env.token_file)
        IN  /\ last.config.server_url =
                   (IF env.environ.url # Unset THEN env.environ.url[1]
                    ELSE IF file_config["url"] # Unset THEN file_config["url"][1]
                    ELSE DefaultUrl)
            /\ last.config.timeout =
                   (IF env.environ.timeout # Unset THEN Floats[env.environ.timeout[1]]
                    ELSE IF file_config["timeout"] # Unset
                    THEN Floats[file_config["timeout"][1]]
                    ELSE DefaultTimeout)
            /\ GetHeaders(last.config.bearer_token) =
                   GetHeaders(IF env.environ.token # Unset THEN env.environ.token
                              ELSE file_token)

-----------------------------------------------------------------------------
(* Acknowledgements (database.py) *)

\* A message row joined with its recipient row: sender_id and ack_required
\* of the message, agent_id, read_ts and ack_ts of the recipient link, and
\* whether created_ts lies before the overdue threshold.
DeliveryRows ==
    [sender : AgentNames, to : AgentNames, ack_required : BOOLEAN,
     read : BOOLEAN, acked : BOOLEAN, old : BOOLEAN]

\* The store with the joined rows kept next to the two tables they join.
AckStore(registered) == InitialStore(registered) @@ [deliveries |-> EmptyBag]

\* The WHERE clause shared by acks_pending and acks_overdue.
AckOwed(agent_id, x) == x.to = agent_id /\ x.ack_required /\ ~x.acked

\* acks_pending: the rows selected. JOIN agents sender keeps a message only
\* while the row of its sender exists. The LIMIT of 20 is above MaxRows.
AcksPending(d, key, name) ==
    LET agent_id == GetAgentId(d, name) IN
    IF GetProjectId(key) = 0 THEN [out |-> "ok", ret |-> EmptyBag]
    ELSE IF agent_id = NoId THEN [out |-> "not_found", ret |-> EmptyBag]
    ELSE [out |-> "ok",
          ret |-> DeleteWhere(d.deliveries,
                      LAMBDA x : ~(AckOwed(agent_id, x) /\ x.sender \in d.agents))]

\* acks_overdue: the same, for messages created before the threshold.
AcksOverdue(d, key, name) ==
    LET agent_id == GetAgentId(d, name) IN
    IF GetProjectId(key) = 0 THEN [out |-> "ok", ret |-> EmptyBag]
    ELSE IF agent_id = NoId THEN [out |-> "not_found", ret |-> EmptyBag]
    ELSE [out |-> "ok",
          ret |-> DeleteWhere(d.deliveries,
                      LAMBDA x : ~(AckOwed(agent_id, x) /\ x.old
                                     /\ x.sender \in d.agents))]

\* The server stores a message of sender for one recipient.
DeliverAck(sender, to, ack_required) ==
    /\ StoreSize(db) < MaxRows
    /\ sender \in db.agents /\ to \in db.agents /\ sender # to
    /\ db' = [db EXCEPT
                !.messages = @ (+) SetToBag({sender}),
                !.recipients = @ (+) SetToBag({[agent |-> to, read |-> FALSE]}),
                !.deliveries = @ (+) SetToBag({[sender |-> sender, to |-> to,
                                                ack_required |-> ack_required,
                                                read |-> FALSE, acked |-> FALSE,
                                                old |-> FALSE]})]
    /\ last' = EnvObs
    /\ UNCHANGED <<now, files, procs, reg, env>>

\* The server sets read_ts of a recipient link.
ReadDelivery(x) ==
    /\ BagIn(x, db.deliveries) /\ ~x.read
    /\ db' = [db EXCEPT
                !.recipients = (@ (-) SetToBag({[agent |-> x.to, read |-> FALSE]}))
                                  (+) SetToBag({[agent |-> x.to, read |-> TRUE]}),
                !.deliveries = (@ (-) SetToBag({x}))
                                  (+) SetToBag({[x EXCEPT !.read = TRUE]})]
    /\ last' = EnvObs
    /\ UNCHANGED <<now, files, procs, reg, env>>

\* The server sets ack_ts of a recipient link that was read.
Acknowledge(x) ==
    /\ BagIn(x, db.deliveries) /\ x.read /\ ~x.acked
    /\ db' = [db EXCEPT
                !.deliveries = (@ (-) SetToBag({x}))
                                  (+) SetToBag({[x EXCEPT !.acked = TRUE]})]
    /\ last' = EnvObs
    /\ UNCHANGED <<now, files, procs, reg, env>>

\* The clock passes created_ts plus the overdue threshold of a message.
GrowOld(x) ==
    /\ BagIn(x, db.deliveries) /\ ~x.old
    /\ db' = [db EXCEPT
                !.deliveries = (@ (-) SetToBag({x}))
                                  (+) SetToBag({[x EXCEPT !.old = TRUE]})]
    /\ last' = EnvObs
    /\ UNCHANGED <<now, files, procs, reg, env>>

\* AgentMailDB.delete_agent(key, name, force): the recipient links the
\* cascade deletes leave the joined rows as well.
DeleteSender(key, name, force) ==
    LET r == DeleteAgent(db, key, name, force) IN
    /\ db' = IF r.out = "ok"
             THEN [r.db EXCEPT !.deliveries = DeleteWhere(@, LAMBDA x : x.to = name)]
             ELSE r.db
    /\ last' = StoreObs("delete_agent", key, name, force, r)
    /\ UNCHANGED <<now, files, procs, reg, env>>

\* AgentMailDB.acks_pending(key, name)
QueryAcksPending(key, name) ==
    /\ last' = StoreObs("acks_pending", key, name, FALSE, AcksPending(db, key, name))
    /\ UNCHANGED <<now, files, procs, reg, db, env>>

\* AgentMailDB.acks_overdue(key, name)
QueryAcksOverdue(key, name) ==
    /\ last' = StoreObs("acks_overdue", key, name, FALSE, AcksOverdue(db, key, name))
    /\ UNCHANGED <<now, files, procs, reg, db, env>>

NextAcks ==
    \/ \E sender \in AgentNames, to \in AgentNames, ack_required \in BOOLEAN :
            DeliverAck(sender, to, ack_required)
    \/ \E x \in DeliveryRows : ReadDelivery(x)
    \/ \E x \in DeliveryRows : Acknowledge(x)
    \/ \E x \in DeliveryRows : GrowOld(x)
    \/ \E key \in ProjectKeys, name \in AgentNames : Dependencies(key, name)
    \/ \E key \in ProjectKeys, name \in AgentNames : QueryAcksPending(key, name)
    \/ \E key \in ProjectKeys, name \in AgentNames : QueryAcksOverdue(key, name)
    \/ \E key \in ProjectKeys, name \in AgentNames, force \in BOOLEAN :
            DeleteSender(key, name, force)

InitAcks ==
    /\ now = 0
    /\ files = [a \in Agents |-> NoFile]
    /\ procs = [h \in Hosts |-> "user"]
    /\ reg = [h \in Hosts |-> Idle]
    /\ last = EnvObs
    /\ env = NoEnv
    /\ db = AckStore({"A", "B"})

SpecAcks == InitAcks /\ [][NextAcks]_vars

\* C36: for an existing agent R, acks_pending lists every ack-required
\* message R has not acknowledged, and acks_overdue every such message that
\* is old enough, whether or not the sender's row still exists; the unread
\* ones among the listed messages are the unread links of R's dependency
\* snapshot that are ack-required.
C36_DeletedSenderStillListed ==
    (last.op \in {"acks_pending", "acks_overdue"} /\ last.project = Project
        /\ last.agent \in db.agents) =>
        LET R == last.agent
            owed == DeleteWhere(db.deliveries,
                        LAMBDA x : ~(AckOwed(R, x)
                                       /\ (last.op = "acks_overdue" => x.old)))
            others == CountWhere(db.deliveries,
                          LAMBDA x : x.to = R /\ ~x.read
                                       /\ ~(AckOwed(R, x)
                                              /\ (last.op = "acks_overdue" => x.old)))
        IN  /\ last.out = "ok"
            /\ last.ret = owed
            /\ CountWhere(last.ret, LAMBDA x : ~x.read) + others
                   = AgentDependencies(db, Project, R).unread_messages

-----------------------------------------------------------------------------
(* delete_agent, statement by statement (database.py) *)

\* The four statements of the cascade, each on the store it is handed.
ReleaseReservations(d, agent_id) ==
    [d EXCEPT !.reservations =
         UpdateRows(@, LAMBDA r : IF Unreleased(agent_id, r)
                                  THEN [r EXCEPT !.released = TRUE]
                                  ELSE r)]
RemoveRecipients(d, agent_id) ==
    [d EXCEPT !.recipients = DeleteWhere(@, LAMBDA mr : mr.agent = agent_id)]
RemoveLinks(d, agent_id) ==
    [d EXCEPT !.links = {l \in @ : ~Linked(agent_id, l)}]
RemoveAgent(d, agent_id) ==
    [d EXCEPT !.agents = @ \ {agent_id}]

\* The number of statements between the opening of the connection and commit.
CascadeSteps == 4

\* What the open transaction sees after the first n statements.
Applied(d, agent_id, n) ==
    LET d1 == IF n >= 1 THEN ReleaseReservations(d, agent_id) ELSE d
        d2 == IF n >= 2 THEN RemoveRecipients(d1, agent_id) ELSE d1
        d3 == IF n >= 3 THEN RemoveLinks(d2, agent_id) ELSE d2
    IN  IF n >= CascadeSteps THEN RemoveAgent(d3, agent_id) ELSE d3

\* A delete_agent call between its dependency check and its commit: the
\* arguments, the snapshot it took, and the statements executed so far.
Deleting(key, name, force, deps) ==
    [kind |-> "delete", stage |-> 0, key |-> key, name |-> name,
     force |-> force, deps |-> deps]

\* No transaction holds the write lock: none is open, or the one delete in
\* flight has not executed its first statement.
Unlocked == IF env.kind = "delete" THEN env.stage = 0 ELSE TRUE

\* delete_agent, lines 290-298: the snapshot on its own read-only connection
\* and the refusal.
DeleteCheck(key, name, force) ==
    LET deps == AgentDependencies(db, key, name) IN
    /\ env = NoEnv
    /\ UNCHANGED <<now, files, procs, reg, db>>
    /\ IF deps.out # "ok"
       THEN /\ last' = StoreObs("delete_agent", key, name, force,
                                [out |-> "not_found", ret |-> deps])
            /\ UNCHANGED env
       ELSE IF ~deps.can_delete /\ ~force
       THEN /\ last' = StoreObs("delete_agent", key, name, force,
                                [out |-> "conflict",
                                 ret |-> [unread_messages |-> deps.unread_messages,
                                          active_reservations |->
                                              deps.active_reservations]])
            /\ UNCHANGED env
       ELSE /\ last' = StoreObs("delete_check", key, name, force,
                                [out |-> "ok", ret |-> deps])
            /\ env' = Deleting(key, name, force, deps)

\* delete_agent, lines 300-329: the next statement of the cascade, inside the
\* transaction the first statement opens.
CascadeStep ==
    /\ env.kind = "delete" /\ env.stage < CascadeSteps
    /\ env' = [env EXCEPT !.stage = @ + 1]
    /\ last' = EnvObs
    /\ UNCHANGED <<now, files, procs, reg, db>>

\* delete_agent, lines 330-339: commit and the counts returned.
CascadeCommit ==
    LET agent_id == env.deps.agent_id IN
    /\ env.kind = "delete" /\ env.stage = CascadeSteps
    /\ db' = Applied(db, agent_id, env.stage)
    /\ env' = NoEnv
    /\ last' = StoreObs("delete_agent", env.key, env.name, env.force,
                   [out |-> "ok",
                    ret |-> [deleted |-> TRUE,
                             agent_name |-> env.name,
                             released_reservations |->
                                 CountWhere(db.reservations,
                                            LAMBDA r : Unreleased(agent_id, r)),
                             removed_recipient_entries |->
                                 CountWhere(db.recipients,
                                            LAMBDA mr : mr.agent = agent_id),
                             removed_links |->
                                 Cardinality({l \in db.links : Linked(agent_id, l)}),
                             orphaned_sent_messages |-> env.deps.sent_messages]])
    /\ UNCHANGED <<now, files, procs, reg>>

\* A statement or the commit raises, or the process dies: the connection's
\* context manager, or the journal at the next open, rolls the open
\* transaction back.
CascadeFail ==
    /\ env.kind = "delete" /\ env.stage >= 1
    /\ env' = NoEnv
    /\ last' = [failed_after |-> env.stage]
                   @@ StoreObs("delete_agent", env.key, env.name, env.force,
                               [out |-> "error", ret |-> NoFile])
    /\ UNCHANGED <<now, files, procs, reg, db>>

NextCascade ==
    \/ \E sender \in AgentNames, to \in AgentNames : Unlocked /\ SendMessage(sender, to)
    \/ \E mr \in RecipientRows : Unlocked /\ MarkRead(mr)
    \/ \E agent \in AgentNames, expires \in ExpiryValues :
            Unlocked /\ Reserve(agent, expires)
    \/ \E l \in LinkRows : Unlocked /\ AddLink(l)
    \/ \E key \in ProjectKeys, name \in AgentNames : Dependencies(key, name)
    \/ \E key \in ProjectKeys, name \in AgentNames, force \in BOOLEAN :
            DeleteCheck(key, name, force)
    \/ CascadeStep
    \/ CascadeCommit
    \/ CascadeFail

SpecCascade == InitStore /\ [][NextCascade]_vars

\* C32: a step that changes the store while the cascade's transaction is
\* open applies the whole cascade; and when the cascade fails after any of its statements the store
\* is left such that running the same delete again succeeds and ends in the
\* state an uninterrupted cascade would have committed.
C32_FailedCascadeRerunnable ==
    [][/\ (~Unlocked /\ db' # db)
            => db' = Cascade(db, env.deps.agent_id)
       /\ (last'.op = "delete_agent" /\ last'.out = "error")
            => LET again == DeleteAgent(db', env.key, env.name, env.force) IN
               /\ again.out = "ok"
               /\ again.db = Cascade(db, env.deps.agent_id)]_vars

\* C33: a delete without force that succeeds removes no recipient link
\* whose read_ts is null and releases no reservation that is active in the
\* store the cascade runs on.
C33_UnforcedDeleteKeepsDependencies ==
    [][(last'.op = "delete_agent" /\ last'.out = "ok" /\ ~last'.force) =>
          /\ \A mr \in RecipientRows :
                ~mr.read => CopiesIn(mr, db'.recipients) = CopiesIn(mr, db.recipients)
          /\ \A r \in ReservationRows :
                IsActive(r) => CopiesIn(r, db'.reservations) = CopiesIn(r, db.reservations)]_vars
====
